---- MODULE Spec2Model ----
(***************************************************************************)
(* Guardian Integration Gateway: the failure gate (circuit breaker), the   *)
(* secure-inquiry use case that consults and updates it, and the           *)
(* collaborators the use case calls (sanitizer, generation service,        *)
(* encryption, audit storage).                                             *)
(***************************************************************************)
EXTENDS Integers, Sequences, FiniteSets, TLC

(***************************************************************************)
(* Bounds of the model                                                     *)
(***************************************************************************)
\* number of direct calls of an API explored in SpecGate, SpecAudit and
\* SpecSanitize
MaxCalls == 6
\* number of requests that may be in flight at the same time in Spec
MaxInFlight == 2
\* number of requests received in Spec
MaxRequests == 4

\* number of requests that may be in flight at the same time in SpecHttp
MaxHttpInFlight == 1

\* number of fragments a text handed to the sanitizer in SpecRedact is made of
MaxParts == 3

\* number of code units of a text handed to encrypt in SpecCrypto
MaxUnits == 3

\* a request in flight occupies one of these until the next one takes it over
Reqs == 1..MaxInFlight
HttpReqs == 1..MaxHttpInFlight

(***************************************************************************)
(* Program constants                                                       *)
(***************************************************************************)
FAILURE_THRESHOLD == 3

(***************************************************************************)
(* Characters and strings: a string is a sequence of one-character strings *)
(***************************************************************************)
Digits == {"0", "1", "2", "3", "4", "5", "6", "7", "8", "9"}

Letters == {"a", "b", "c", "d", "e", "f", "g", "h", "i", "j", "k", "l", "m",
            "n", "o", "p", "q", "r", "s", "t", "u", "v", "w", "x", "y", "z",
            "A", "B", "C", "D", "E", "F", "G", "H", "I", "J", "K", "L", "M",
            "N", "O", "P", "Q", "R", "S", "T", "U", "V", "W", "X", "Y", "Z"}

LocalChars == Letters \cup Digits \cup {".", "_", "%", "+", "-"}

DomainChars == Letters \cup Digits \cup {".", "-"}

EMAIL_PLACEHOLDER ==
    <<"<", "R", "E", "D", "A", "C", "T", "E", "D", ":", " ",
      "E", "M", "A", "I", "L", ">">>

CREDIT_CARD_PLACEHOLDER ==
    <<"<", "R", "E", "D", "A", "C", "T", "E", "D", ":", " ",
      "C", "R", "E", "D", "I", "T", "_", "C", "A", "R", "D", ">">>

SSN_PLACEHOLDER ==
    <<"<", "R", "E", "D", "A", "C", "T", "E", "D", ":", " ",
      "S", "S", "N", ">">>

DigitValue(c) ==
    CASE c = "0" -> 0 [] c = "1" -> 1 [] c = "2" -> 2 [] c = "3" -> 3
      [] c = "4" -> 4 [] c = "5" -> 5 [] c = "6" -> 6 [] c = "7" -> 7
      [] c = "8" -> 8 [] c = "9" -> 9

(***************************************************************************)
(* Redactor (sanitizer service)                                            *)
(***************************************************************************)
RECURSIVE LuhnSum(_, _)
\* sum of the digits of d from position i (counted from the right, 1-indexed)
\* leftwards, every second one doubled and reduced by 9 when above 9
LuhnSum(d, i) ==
    IF i > Len(d) THEN 0
    ELSE LET v == DigitValue(d[Len(d) - i + 1])
             w == IF i % 2 = 0
                  THEN (IF 2 * v > 9 THEN 2 * v - 9 ELSE 2 * v)
                  ELSE v
         IN  w + LuhnSum(d, i + 1)

\* variant: every second digit is doubled counting from the left
isValidLuhn_FromLeft(d) ==
    LuhnSum([i \in 1..Len(d) |-> d[Len(d) - i + 1]], 1) % 10 = 0

isValidLuhn(d) == LuhnSum(d, 1) % 10 = 0

RECURSIVE RunEnd(_, _, _)
\* first index >= i whose character is outside cs (Len(s) + 1 when none)
RunEnd(s, i, cs) ==
    IF i > Len(s) \/ s[i] \notin cs THEN i ELSE RunEnd(s, i + 1, cs)

\* a digit run starting at i is delimited on the left by a non-digit or the edge
DigitRunStart(s, i) ==
    /\ s[i] \in Digits
    /\ (i = 1 \/ s[i - 1] \notin Digits)

\* end (exclusive) of the email matched at i, or 0 when no email starts at i:
\* local characters, '@', domain characters, then the last '.' that is
\* followed by at least two letters, then the letters after it
EmailEndAt(s, i) ==
    LET at == RunEnd(s, i, LocalChars)
    IN  IF at = i \/ at > Len(s) \/ s[at] # "@" THEN 0
        ELSE LET e == RunEnd(s, at + 1, DomainChars)
                 dots == {k \in (at + 2)..(e - 3) :
                             /\ s[k] = "."
                             /\ s[k + 1] \in Letters
                             /\ s[k + 2] \in Letters}
             IN  IF dots = {} THEN 0
                 ELSE LET k == CHOOSE x \in dots : \A y \in dots : y <= x
                      IN  RunEnd(s, k + 1, Letters)

RECURSIVE emailFrom(_, _)
emailFrom(s, i) ==
    IF i > Len(s) THEN <<>>
    ELSE LET e == EmailEndAt(s, i)
         IN  IF e # 0 THEN EMAIL_PLACEHOLDER \o emailFrom(s, e)
             ELSE <<s[i]>> \o emailFrom(s, i + 1)

\* variant: only the first email address of the text is replaced
emailPass_FirstOnly(s) ==
    LET starts == {i \in 1..Len(s) : EmailEndAt(s, i) # 0}
    IN  IF starts = {} THEN s
        ELSE LET i == CHOOSE x \in starts : \A y \in starts : x <= y
             IN  SubSeq(s, 1, i - 1) \o EMAIL_PLACEHOLDER
                     \o SubSeq(s, EmailEndAt(s, i), Len(s))

emailPass(s) == emailFrom(s, 1)

RECURSIVE cardFrom_NoLuhn(_, _)
\* variant: every run of 13 to 19 digits is replaced, whatever its checksum
cardFrom_NoLuhn(s, i) ==
    IF i > Len(s) THEN <<>>
    ELSE IF DigitRunStart(s, i)
         THEN LET e == RunEnd(s, i, Digits)
                  run == SubSeq(s, i, e - 1)
              IN  IF Len(run) >= 13 /\ Len(run) <= 19
                  THEN CREDIT_CARD_PLACEHOLDER \o cardFrom_NoLuhn(s, e)
                  ELSE run \o cardFrom_NoLuhn(s, e)
         ELSE <<s[i]>> \o cardFrom_NoLuhn(s, i + 1)

RECURSIVE cardFrom(_, _)
cardFrom(s, i) ==
    IF i > Len(s) THEN <<>>
    ELSE IF DigitRunStart(s, i)
         THEN LET e == RunEnd(s, i, Digits)
                  run == SubSeq(s, i, e - 1)
              IN  IF Len(run) >= 13 /\ Len(run) <= 19 /\ isValidLuhn(run)
                  THEN CREDIT_CARD_PLACEHOLDER \o cardFrom(s, e)
                  ELSE run \o cardFrom(s, e)
         ELSE <<s[i]>> \o cardFrom(s, i + 1)

cardPass(s) == cardFrom(s, 1)

RECURSIVE ssnFrom_NoBoundary(_, _)
\* variant: nine digits are replaced wherever they stand, also at the start
\* of a longer run
ssnFrom_NoBoundary(s, i) ==
    IF i > Len(s) THEN <<>>
    ELSE IF s[i] \in Digits /\ RunEnd(s, i, Digits) - i >= 9
         THEN SSN_PLACEHOLDER \o ssnFrom_NoBoundary(s, i + 9)
         ELSE <<s[i]>> \o ssnFrom_NoBoundary(s, i + 1)

RECURSIVE ssnFrom(_, _)
ssnFrom(s, i) ==
    IF i > Len(s) THEN <<>>
    ELSE IF DigitRunStart(s, i)
         THEN LET e == RunEnd(s, i, Digits)
                  run == SubSeq(s, i, e - 1)
              IN  IF Len(run) = 9
                  THEN SSN_PLACEHOLDER \o ssnFrom(s, e)
                  ELSE run \o ssnFrom(s, e)
         ELSE <<s[i]>> \o ssnFrom(s, i + 1)

\* variant: only the first run of nine digits of the text is replaced
ssnPass_FirstOnly(s) ==
    LET starts == {i \in 1..Len(s) :
                      DigitRunStart(s, i) /\ RunEnd(s, i, Digits) - i = 9}
    IN  IF starts = {} THEN s
        ELSE LET i == CHOOSE x \in starts : \A y \in starts : x <= y
             IN  SubSeq(s, 1, i - 1) \o SSN_PLACEHOLDER \o SubSeq(s, i + 9, Len(s))

ssnPass(s) == ssnFrom(s, 1)

\* variant: the passes run in the order SSN, credit card, email
sanitize_SsnFirst(message) ==
    IF message = <<>> THEN <<>>
    ELSE emailPass(cardPass(ssnPass(message)))

sanitize(message) ==
    IF message = <<>> THEN <<>>
    ELSE ssnPass(cardPass(emailPass(message)))

\* concrete messages
MsgPlain == <<"h", "i">>
MsgEmail == <<"t", "o", " ", "a", "@", "b", ".", "c", "o", "!">>
MsgSsn == <<"i", "d", " ", "1", "2", "3", "4", "5", "6", "7", "8", "9">>
MsgCard == <<"4", "2", "2", "2", "2", "2", "2", "2", "2", "2", "2", "2", "2", " ", "k">>

(***************************************************************************)
(* Failure gate (circuit breaker service): pure parts of its five calls,   *)
(* as functions of the module-level counter                                *)
(***************************************************************************)
\* variants: the comparison off by one, and equality in place of >=
isOpen_Strict(count) == count > FAILURE_THRESHOLD

isOpen_Equal(count) == count = FAILURE_THRESHOLD

isOpen(count) == count >= FAILURE_THRESHOLD

\* variant: the counter saturates at the threshold
recordFailure_Saturating(count) ==
    IF count >= FAILURE_THRESHOLD THEN count ELSE count + 1

recordFailure(count) == count + 1

\* variant: a success takes one failure off instead of clearing the counter
recordSuccess_Decrement(count) == IF count > 0 THEN count - 1 ELSE 0

recordSuccess(count) == 0

\* variant: resetting an open gate leaves it one failure from opening
reset_HalfOpen(count) ==
    IF count >= FAILURE_THRESHOLD THEN FAILURE_THRESHOLD - 1 ELSE 0

reset(count) == 0

\* variant: the count reported is one too many
getFailureCount_OffByOne(count) == count + 1

getFailureCount(count) == count

(***************************************************************************)
(* Values the collaborators exchange                                       *)
(***************************************************************************)
CircuitOpenError ==
    [name |-> "CircuitOpenError", message |-> "Service Busy", isCircuitOpen |-> TRUE]

\* errors the generation service may reject or throw with
AIErrors ==
    {[name |-> "Error", message |-> "AI timeout", isCircuitOpen |-> FALSE],
     [name |-> "TypeError", message |-> "AI provider down", isCircuitOpen |-> FALSE]}

KeyError ==
    [name |-> "Error", message |-> "ENCRYPTION_KEY environment variable is not set",
     isCircuitOpen |-> FALSE]

WriteError ==
    [name |-> "Error", message |-> "EACCES", isCircuitOpen |-> FALSE]

Answers == {"Generated Answer"}

UserIds == {<<"u", "1">>}

Messages == {MsgPlain, MsgSsn}

\* what new Date().toISOString() may return
Timestamps == {"2026-01-01T00:00:00.000Z"}

(***************************************************************************)
(* Encryption (crypto.util). A string is a sequence of UTF-16 code units;  *)
(* the units outside ASCII are written U+xxxx. A byte is a number in       *)
(* 0..255.                                                                 *)
(***************************************************************************)
IV_LENGTH == 16

\* the printable ASCII characters, in the order of their codes from 32 on
\* (the double quote, the backslash and the backtick written U+0022, U+005C
\* and U+0060)
AsciiChars ==
    <<" ", "!", "U+0022", "#", "$", "%", "&", "'", "(", ")", "*", "+", ",", "-", ".", "/",
      "0", "1", "2", "3", "4", "5", "6", "7", "8", "9", ":", ";", "<", "=", ">", "?",
      "@", "A", "B", "C", "D", "E", "F", "G", "H", "I", "J", "K", "L", "M", "N", "O",
      "P", "Q", "R", "S", "T", "U", "V", "W", "X", "Y", "Z", "[", "U+005C", "]", "^", "_",
      "U+0060", "a", "b", "c", "d", "e", "f", "g", "h", "i", "j", "k", "l", "m", "n", "o",
      "p", "q", "r", "s", "t", "u", "v", "w", "x", "y", "z", "{", "|", "}", "~">>

\* the first and the second half of the surrogate pair of U+1F510
HighSurrogate == "U+D83D"
LowSurrogate == "U+DD10"
\* the replacement character, and its UTF-8 encoding
ReplacementChar == "U+FFFD"
ReplacementBytes == <<239, 191, 189>>

RECURSIVE utf8Encode(_)
\* the bytes cipher.update(text, 'utf8', ...) reads from text: a surrogate
\* pair gives the four bytes of its code point, a surrogate without its
\* partner the bytes of the replacement character
utf8Encode(s) ==
    IF s = <<>> THEN <<>>
    ELSE LET c == Head(s)
         IN  IF c = HighSurrogate /\ Len(s) >= 2 /\ s[2] = LowSurrogate
             THEN <<240, 159, 148, 144>> \o utf8Encode(Tail(Tail(s)))
             ELSE IF c \in {HighSurrogate, LowSurrogate, ReplacementChar}
             THEN ReplacementBytes \o utf8Encode(Tail(s))
             ELSE IF c = "U+00E9"
             THEN <<195, 169>> \o utf8Encode(Tail(s))
             ELSE <<31 + (CHOOSE i \in DOMAIN AsciiChars : AsciiChars[i] = c)>>
                      \o utf8Encode(Tail(s))

RECURSIVE utf8Decode(_)
\* the string decipher.update(..., 'utf8') and decipher.final('utf8') give
\* for these bytes; bytes that start no character give the replacement
\* character
utf8Decode(b) ==
    IF b = <<>> THEN <<>>
    ELSE IF b[1] \in 32..126
         THEN <<AsciiChars[b[1] - 31]>> \o utf8Decode(Tail(b))
    ELSE IF Len(b) >= 2 /\ SubSeq(b, 1, 2) = <<195, 169>>
         THEN <<"U+00E9">> \o utf8Decode(SubSeq(b, 3, Len(b)))
    ELSE IF Len(b) >= 3 /\ SubSeq(b, 1, 3) = ReplacementBytes
         THEN <<ReplacementChar>> \o utf8Decode(SubSeq(b, 4, Len(b)))
    ELSE IF Len(b) >= 4 /\ SubSeq(b, 1, 4) = <<240, 159, 148, 144>>
         THEN <<HighSurrogate, LowSurrogate>> \o utf8Decode(SubSeq(b, 5, Len(b)))
    ELSE <<ReplacementChar>> \o utf8Decode(Tail(b))

HexDigits == <<"0", "1", "2", "3", "4", "5", "6", "7", "8", "9",
               "a", "b", "c", "d", "e", "f">>

RECURSIVE hexEncode(_)
\* buffer.toString('hex'), and the 'hex' output of a cipher
hexEncode(b) ==
    IF b = <<>> THEN <<>>
    ELSE <<HexDigits[(b[1] \div 16) + 1], HexDigits[(b[1] % 16) + 1]>>
             \o hexEncode(Tail(b))

HexDigitSet == {HexDigits[i] : i \in DOMAIN HexDigits}

HexValue(c) == (CHOOSE i \in DOMAIN HexDigits : HexDigits[i] = c) - 1

RECURSIVE hexDecode(_)
\* Buffer.from(text, 'hex'): the bytes of the pairs of hex digits, up to the
\* first pair that is not one
hexDecode(s) ==
    IF Len(s) < 2 \/ s[1] \notin HexDigitSet \/ s[2] \notin HexDigitSet
    THEN <<>>
    ELSE <<16 * HexValue(s[1]) + HexValue(s[2])>> \o hexDecode(SubSeq(s, 3, Len(s)))

\* the key getKey() derives from the configured ENCRYPTION_KEY, as the
\* amount by which the block cipher shifts a byte
KeyDigest == 77

RECURSIVE cipherBytes(_, _)
\* AES-256-CBC under the key, in the shape that matters here: each byte is
\* combined with the ciphertext before it (at first with the vector), then
\* enciphered under the key
cipherBytes(b, prev) ==
    IF b = <<>> THEN <<>>
    ELSE LET c == (b[1] + prev + KeyDigest) % 256
         IN  <<c>> \o cipherBytes(Tail(b), c)

RECURSIVE decipherBytes(_, _)
decipherBytes(c, prev) ==
    IF c = <<>> THEN <<>>
    ELSE <<(c[1] + 512 - prev - KeyDigest) % 256>> \o decipherBytes(Tail(c), c[1])

\* initialisation vectors crypto.randomBytes(IV_LENGTH) may return
IVa == [i \in 1..IV_LENGTH |-> (16 * i + 3) % 256]
IVb == [i \in 1..IV_LENGTH |-> (29 * i + 200) % 256]
IVs == {IVa}
RandomIVs == {IVa, IVb}

\* encrypt(text) for a string text, the key being configured and
\* crypto.randomBytes returning iv
encrypt(text, iv) ==
    IF text = <<>> THEN <<>>
    ELSE hexEncode(iv) \o <<":">>
             \o hexEncode(cipherBytes(utf8Encode(text), iv[IV_LENGTH]))

RECURSIVE split(_, _)
\* text.split(sep): the parts of text between the occurrences of sep
split(s, sep) ==
    IF \A i \in DOMAIN s : s[i] # sep THEN <<s>>
    ELSE LET i == CHOOSE x \in DOMAIN s :
                      s[x] = sep /\ \A y \in 1..(x - 1) : s[y] # sep
         IN  <<SubSeq(s, 1, i - 1)>> \o split(SubSeq(s, i + 1, Len(s)), sep)

FormatError ==
    [name |-> "Error", message |-> "Invalid encrypted text format",
     isCircuitOpen |-> FALSE]

\* what createDecipheriv throws for a vector that is not of IV_LENGTH bytes
IvError ==
    [name |-> "TypeError", message |-> "Invalid initialization vector",
     isCircuitOpen |-> FALSE]

\* the outcome of a call: the value returned, or the error thrown
Returned(v) == [threw |-> FALSE, value |-> v, error |-> <<>>]
Threw(e) == [threw |-> TRUE, value |-> <<>>, error |-> <<e>>]

\* variant: the vector is not read from the text but taken to be IVa
decrypt_FixedIv(encryptedText, configured) ==
    IF encryptedText = <<>> THEN Returned(<<>>)
    ELSE LET parts == split(encryptedText, ":")
         IN  IF Len(parts) # 2 THEN Threw(FormatError)
             ELSE IF ~configured THEN Threw(KeyError)
             ELSE Returned(utf8Decode(decipherBytes(hexDecode(parts[2]),
                                                    IVa[IV_LENGTH])))

\* decrypt(encryptedText) for a string encryptedText, the key being
\* configured or not
decrypt(encryptedText, configured) ==
    IF encryptedText = <<>> THEN Returned(<<>>)
    ELSE LET parts == split(encryptedText, ":")
         IN  IF Len(parts) # 2 THEN Threw(FormatError)
             ELSE LET iv == hexDecode(parts[1])
                  IN  IF ~configured THEN Threw(KeyError)
                      ELSE IF Len(iv) # IV_LENGTH THEN Threw(IvError)
                      ELSE Returned(utf8Decode(decipherBytes(hexDecode(parts[2]),
                                                             iv[IV_LENGTH])))

(***************************************************************************)
(* The JSON audit adapter                                                  *)
(***************************************************************************)
\* content of audit-log.json: no file, text that JSON.parse refuses, JSON
\* text of a value that is not an array, or the JSON text of an array
MissingFile == [kind |-> "missing", entries |-> <<>>]
CorruptFile == [kind |-> "corrupt", entries |-> <<>>]
ObjectFile == [kind |-> "object", entries |-> <<>>]

ReadError ==
    [name |-> "Error", message |-> "EACCES: read", isCircuitOpen |-> FALSE]

PushTypeError ==
    [name |-> "TypeError", message |-> "entries.push is not a function",
     isCircuitOpen |-> FALSE]

\* how the file system answers during one saveAudit; a write that fails
\* leaves the file as it was
FsOutcomes == {"ok", "readFails", "writeFails"}

\* the file after ensureFileExists(): created as '[]' when there was none
ensureFileExists(file) ==
    IF file.kind = "missing" THEN [kind |-> "array", entries |-> <<>>] ELSE file

\* variant: content that JSON.parse refuses is handed on as a value that is
\* not an array
readAuditLog_KeepsCorrupt(file) ==
    LET content == ensureFileExists(file)
    IN  IF content.kind \in {"corrupt", "object"} THEN [isArray |-> FALSE, entries |-> <<>>]
        ELSE [isArray |-> TRUE, entries |-> content.entries]

\* what readAuditLog() returns for the content: the parsed value, or an
\* empty array when JSON.parse throws
readAuditLog(file) ==
    LET content == ensureFileExists(file)
    IN  IF content.kind = "corrupt" THEN [isArray |-> TRUE, entries |-> <<>>]
        ELSE IF content.kind = "object" THEN [isArray |-> FALSE, entries |-> <<>>]
        ELSE [isArray |-> TRUE, entries |-> content.entries]

\* the file after writeAuditLog(entries)
writeAuditLog(entries) == [kind |-> "array", entries |-> entries]

\* variant: the error of a failed write is swallowed and the promise resolves
saveAudit_SwallowsWriteError(file, entry, fs) ==
    IF fs = "readFails"
    THEN [file |-> ensureFileExists(file), settled |-> "rejected", error |-> <<ReadError>>]
    ELSE IF ~readAuditLog(file).isArray
    THEN [file |-> ensureFileExists(file), settled |-> "rejected", error |-> <<PushTypeError>>]
    ELSE IF fs = "writeFails"
    THEN [file |-> ensureFileExists(file), settled |-> "resolved", error |-> <<>>]
    ELSE [file |-> writeAuditLog(Append(readAuditLog(file).entries, entry)),
          settled |-> "resolved", error |-> <<>>]

\* variant: the file is rewritten with the new entry alone
saveAudit_Overwrites(file, entry, fs) ==
    IF fs = "readFails"
    THEN [file |-> ensureFileExists(file), settled |-> "rejected", error |-> <<ReadError>>]
    ELSE IF ~readAuditLog(file).isArray
    THEN [file |-> ensureFileExists(file), settled |-> "rejected", error |-> <<PushTypeError>>]
    ELSE IF fs = "writeFails"
    THEN [file |-> ensureFileExists(file), settled |-> "rejected", error |-> <<WriteError>>]
    ELSE [file |-> writeAuditLog(<<entry>>), settled |-> "resolved", error |-> <<>>]

\* saveAudit(entry): the file afterwards and how the returned promise has
\* settled; the executor reads, pushes and writes inside a try block whose
\* catch rejects, so nothing is thrown to the caller
saveAudit(file, entry, fs) ==
    IF fs = "readFails"
    THEN [file |-> ensureFileExists(file), settled |-> "rejected", error |-> <<ReadError>>]
    ELSE IF ~readAuditLog(file).isArray
    THEN [file |-> ensureFileExists(file), settled |-> "rejected", error |-> <<PushTypeError>>]
    ELSE IF fs = "writeFails"
    THEN [file |-> ensureFileExists(file), settled |-> "rejected", error |-> <<WriteError>>]
    ELSE [file |-> writeAuditLog(Append(readAuditLog(file).entries, entry)),
          settled |-> "resolved", error |-> <<>>]

\* the answers of the file system taken up where requests are served
FlowFsOutcomes == {"ok", "writeFails"}

(***************************************************************************)
(* The HTTP boundary: request bodies and their validation                  *)
(***************************************************************************)
\* JavaScript values a parsed JSON body may hold in a property, tagged with
\* what typeof, the comparison with null and Array.isArray tell about them;
\* v is the text the value would give if it were turned into a string
Undefined == [t |-> "undefined", v |-> <<>>]
Null == [t |-> "null", v |-> <<>>]
Num42 == [t |-> "number", v |-> <<"4", "2">>]
Str(s) == [t |-> "string", v |-> s]
Num(digits) == [t |-> "number", v |-> digits]
Bool(b) == [t |-> "boolean", v |-> IF b THEN <<"t", "r", "u", "e">> ELSE <<"f", "a", "l", "s", "e">>]
Obj(text) == [t |-> "object", v |-> text]
Arr(text) == [t |-> "array", v |-> text]

Whitespace == {" ", "\t", "\n"}

RECURSIVE trim(_)
\* String.prototype.trim: the string without leading and trailing whitespace
trim(s) ==
    IF s = <<>> THEN s
    ELSE IF Head(s) \in Whitespace THEN trim(Tail(s))
    ELSE IF s[Len(s)] \in Whitespace THEN trim(SubSeq(s, 1, Len(s) - 1))
    ELSE s

\* req.body: absent, or an object with the two properties
NoBody == [present |-> FALSE, userId |-> Undefined, message |-> Undefined]
Body(u, m) == [present |-> TRUE, userId |-> u, message |-> m]

\* variant: whitespace-only strings are accepted
validateRequest_NoTrim(body) ==
    IF ~body.present THEN [valid |-> FALSE, error |-> <<"Request body is required">>]
    ELSE IF body.userId.t \in {"undefined", "null"}
         THEN [valid |-> FALSE, error |-> <<"userId is required">>]
    ELSE IF body.userId.t # "string"
         THEN [valid |-> FALSE, error |-> <<"userId must be a string">>]
    ELSE IF body.userId.v = <<>>
         THEN [valid |-> FALSE, error |-> <<"userId cannot be empty">>]
    ELSE IF body.message.t \in {"undefined", "null"}
         THEN [valid |-> FALSE, error |-> <<"message is required">>]
    ELSE IF body.message.t # "string"
         THEN [valid |-> FALSE, error |-> <<"message must be a string">>]
    ELSE IF body.message.v = <<>>
         THEN [valid |-> FALSE, error |-> <<"message cannot be empty">>]
    ELSE [valid |-> TRUE, error |-> <<>>]

validateRequest(body) ==
    IF ~body.present THEN [valid |-> FALSE, error |-> <<"Request body is required">>]
    ELSE IF body.userId.t \in {"undefined", "null"}
         THEN [valid |-> FALSE, error |-> <<"userId is required">>]
    ELSE IF body.userId.t # "string"
         THEN [valid |-> FALSE, error |-> <<"userId must be a string">>]
    ELSE IF trim(body.userId.v) = <<>>
         THEN [valid |-> FALSE, error |-> <<"userId cannot be empty">>]
    ELSE IF body.message.t \in {"undefined", "null"}
         THEN [valid |-> FALSE, error |-> <<"message is required">>]
    ELSE IF body.message.t # "string"
         THEN [valid |-> FALSE, error |-> <<"message must be a string">>]
    ELSE IF trim(body.message.v) = <<>>
         THEN [valid |-> FALSE, error |-> <<"message cannot be empty">>]
    ELSE [valid |-> TRUE, error |-> <<>>]

\* property values a client may send
UserIdValues == {Undefined, Null, Num42, Str(<<>>), Str(<<" ">>)} \cup {Str(u) : u \in UserIds}
MessageValues == {Undefined, Null, Num42, Str(<<>>), Str(<<" ", "\t">>)} \cup {Str(m) : m \in Messages}

\* bodies a client may send: none, and objects in which at most one of the
\* two properties is not an acceptable string
Bodies ==
    {NoBody}
        \cup {Body(u, Str(m)) : u \in UserIdValues, m \in Messages}
        \cup {Body(Str(u), m) : u \in UserIds, m \in MessageValues}

ValidBodies == {body \in Bodies : validateRequest(body).valid}
InvalidBodies == Bodies \ ValidBodies

(***************************************************************************)
(* State                                                                   *)
(***************************************************************************)
VARIABLES
    failureCount,   \* the gate's consecutive-failure counter
    callLog,        \* history: the calls made directly on the gate's API, in order
    ret,            \* history: what the last direct query of the gate returned
    req,            \* per request: position in executeSecureInquiry and calls made
    received,       \* history: number of requests received so far
    auditFile,      \* content of audit-log.json
    keyConfigured,  \* whether config.encryptionKey is set
    failedSinceSuccess  \* history: number of generation-service calls that
                        \* completed with failure after the last one that
                        \* completed with success

vars == <<failureCount, callLog, ret, req, received, auditFile, keyConfigured, failedSinceSuccess>>

FreshRequest ==
    [pc |-> "idle",
     userId |-> <<>>,
     message |-> <<>>,
     trace |-> <<>>,
     isOpenCalls |-> 0,
     sanitizeCalls |-> <<>>,
     aiCalls |-> <<>>,
     openAtAICall |-> <<>>,
     aiOutcome |-> "none",
     aiError |-> <<>>,
     recordSuccessCalls |-> 0,
     recordFailureCalls |-> 0,
     encryptCalls |-> <<>>,
     saveAuditCalls |-> <<>>,
     auditError |-> <<>>,
     answer |-> <<>>,
     error |-> <<>>,
     validationError |-> <<>>]

Init ==
    /\ failureCount = 0
    /\ callLog = <<>>
    /\ ret = <<>>
    /\ req = [r \in Reqs |-> FreshRequest]
    /\ received = 0
    /\ auditFile = writeAuditLog(<<>>)
    /\ keyConfigured \in BOOLEAN
    /\ failedSinceSuccess = 0

(***************************************************************************)
(* Direct calls of the gate's API                                          *)
(***************************************************************************)
CallIsOpen ==
    /\ Len(callLog) < MaxCalls
    /\ ret' = <<"isOpen", isOpen(failureCount)>>
    /\ callLog' = Append(callLog, "isOpen")
    /\ UNCHANGED <<failureCount, req, received, auditFile, keyConfigured, failedSinceSuccess>>

CallGetFailureCount ==
    /\ Len(callLog) < MaxCalls
    /\ ret' = <<"getFailureCount", getFailureCount(failureCount)>>
    /\ callLog' = Append(callLog, "getFailureCount")
    /\ UNCHANGED <<failureCount, req, received, auditFile, keyConfigured, failedSinceSuccess>>

CallRecordFailure ==
    /\ Len(callLog) < MaxCalls
    /\ failureCount' = recordFailure(failureCount)
    /\ callLog' = Append(callLog, "recordFailure")
    /\ UNCHANGED <<ret, req, received, auditFile, keyConfigured, failedSinceSuccess>>

CallRecordSuccess ==
    /\ Len(callLog) < MaxCalls
    /\ failureCount' = recordSuccess(failureCount)
    /\ callLog' = Append(callLog, "recordSuccess")
    /\ UNCHANGED <<ret, req, received, auditFile, keyConfigured, failedSinceSuccess>>

CallReset ==
    /\ Len(callLog) < MaxCalls
    /\ failureCount' = reset(failureCount)
    /\ callLog' = Append(callLog, "reset")
    /\ UNCHANGED <<ret, req, received, auditFile, keyConfigured, failedSinceSuccess>>

GateNext ==
    \/ CallIsOpen
    \/ CallGetFailureCount
    \/ CallRecordFailure
    \/ CallRecordSuccess
    \/ CallReset

SpecGate == Init /\ [][GateNext]_vars

(***************************************************************************)
(* executeSecureInquiry: one action per stretch of code that runs without  *)
(* giving up control (up to an await, a return or a throw)                 *)
(***************************************************************************)
\* a new request can be taken in where none is in flight
CanReceive(r) ==
    /\ req[r].pc \in {"idle", "invalid", "resolved", "rejected"}
    /\ received < MaxRequests

\* the request as it stands once the gate has been consulted for it
Consulted(u, m) ==
    [FreshRequest EXCEPT !.userId = u, !.message = m,
                         !.trace = Append(@, "isOpen"),
                         !.isOpenCalls = @ + 1]

\* variant: the generation service is handed the message as received
Submitted_Raw(u, m) ==
    [Consulted(u, m) EXCEPT
        !.trace = @ \o <<"sanitize", "generateAnswer">>,
        !.sanitizeCalls = Append(@, m),
        !.aiCalls = Append(@, m),
        !.openAtAICall = Append(@, failureCount >= FAILURE_THRESHOLD)]

\* ... and once it has been sanitized and handed to the generation service
Submitted(u, m) ==
    [Consulted(u, m) EXCEPT
        !.trace = @ \o <<"sanitize", "generateAnswer">>,
        !.sanitizeCalls = Append(@, m),
        !.aiCalls = Append(@, sanitize(m)),
        !.openAtAICall = Append(@, failureCount >= FAILURE_THRESHOLD)]

\* variant: the message is sanitized before the gate is consulted
RejectOpen_AfterSanitize(r) ==
    /\ CanReceive(r)
    /\ isOpen(failureCount)
    /\ \E body \in ValidBodies :
          /\ req' = [req EXCEPT ![r] = [Consulted(body.userId.v, body.message.v) EXCEPT
                                        !.trace = Append(@, "sanitize"),
                                        !.sanitizeCalls = Append(@, body.message.v),
                                        !.pc = "rejected",
                                        !.error = <<CircuitOpenError>>]]
    /\ received' = received + 1
    /\ UNCHANGED <<failureCount, callLog, ret, auditFile, keyConfigured, failedSinceSuccess>>

\* variant: each rejection by the open gate takes one failure off the counter
RejectOpen_CoolsDown(r) ==
    /\ CanReceive(r)
    /\ isOpen(failureCount)
    /\ \E body \in ValidBodies :
          /\ req' = [req EXCEPT ![r] = [Consulted(body.userId.v, body.message.v) EXCEPT
                                        !.pc = "rejected",
                                        !.error = <<CircuitOpenError>>]]
    /\ received' = received + 1
    /\ failureCount' = failureCount - 1
    /\ UNCHANGED <<callLog, ret, auditFile, keyConfigured, failedSinceSuccess>>

\* gate open: throw CircuitOpenError before anything else is called
RejectOpen(r) ==
    /\ CanReceive(r)
    /\ isOpen(failureCount)
    /\ \E body \in ValidBodies :
          /\ req' = [req EXCEPT ![r] = [Consulted(body.userId.v, body.message.v) EXCEPT
                                        !.pc = "rejected",
                                        !.error = <<CircuitOpenError>>]]
    /\ received' = received + 1
    /\ UNCHANGED <<failureCount, callLog, ret, auditFile, keyConfigured, failedSinceSuccess>>

\* variant: the generation service is called without consulting the gate
StartAICall_Unchecked(r) ==
    /\ CanReceive(r)
    /\ \E body \in ValidBodies :
          /\ req' = [req EXCEPT ![r] = [Submitted(body.userId.v, body.message.v) EXCEPT
                                        !.pc = "awaitAI",
                                        !.aiOutcome = "pending"]]
    /\ received' = received + 1
    /\ UNCHANGED <<failureCount, callLog, ret, auditFile, keyConfigured, failedSinceSuccess>>

\* variant: the gate is taken as open only above the threshold when a
\* request is admitted
StartAICall_AdmitsAtThreshold(r) ==
    /\ CanReceive(r)
    /\ failureCount <= FAILURE_THRESHOLD
    /\ \E body \in ValidBodies :
          /\ req' = [req EXCEPT ![r] = [Submitted(body.userId.v, body.message.v) EXCEPT
                                        !.pc = "awaitAI",
                                        !.aiOutcome = "pending"]]
    /\ received' = received + 1
    /\ UNCHANGED <<failureCount, callLog, ret, auditFile, keyConfigured, failedSinceSuccess>>

\* gate closed: sanitize, call generateAnswer, which returns a promise that
\* is still pending, and wait for it
StartAICall(r) ==
    /\ CanReceive(r)
    /\ ~isOpen(failureCount)
    /\ \E body \in ValidBodies :
          /\ req' = [req EXCEPT ![r] = [Submitted(body.userId.v, body.message.v) EXCEPT
                                        !.pc = "awaitAI",
                                        !.aiOutcome = "pending"]]
    /\ received' = received + 1
    /\ UNCHANGED <<failureCount, callLog, ret, auditFile, keyConfigured, failedSinceSuccess>>

\* variant: generateAnswer is called outside the try block, so that what it
\* throws before returning escapes the catch block
AIThrows_Uncaught(r) ==
    /\ CanReceive(r)
    /\ ~isOpen(failureCount)
    /\ \E body \in ValidBodies, e \in AIErrors :
          /\ req' = [req EXCEPT ![r] = [Submitted(body.userId.v, body.message.v) EXCEPT
                                        !.pc = "rejected",
                                        !.aiOutcome = "threw",
                                        !.aiError = <<e>>,
                                        !.error = <<e>>]]
    /\ received' = received + 1
    /\ failedSinceSuccess' = failedSinceSuccess + 1
    /\ UNCHANGED <<failureCount, callLog, ret, auditFile, keyConfigured>>

\* gate closed: sanitize, call generateAnswer, which throws before returning;
\* the catch block records the failure and rethrows
AIThrows(r) ==
    /\ CanReceive(r)
    /\ ~isOpen(failureCount)
    /\ \E body \in ValidBodies, e \in AIErrors :
          /\ req' = [req EXCEPT ![r] = [Submitted(body.userId.v, body.message.v) EXCEPT
                                        !.pc = "rejected",
                                        !.aiOutcome = "threw",
                                        !.trace = Append(@, "recordFailure"),
                                        !.recordFailureCalls = @ + 1,
                                        !.aiError = <<e>>,
                                        !.error = <<e>>]]
    /\ failureCount' = recordFailure(failureCount)
    /\ received' = received + 1
    /\ failedSinceSuccess' = failedSinceSuccess + 1
    /\ UNCHANGED <<callLog, ret, auditFile, keyConfigured>>

\* variant: the catch block also audits the failed request
AIRejects_Audits(r) ==
    /\ req[r].pc = "awaitAI"
    /\ \E e \in AIErrors, t \in Timestamps :
          LET entry == [userId |-> req[r].userId,
                        timestamp |-> t,
                        originalMessageEncrypted |-> <<>>,
                        sanitizedMessage |-> req[r].aiCalls[1]]
          IN  /\ req' = [req EXCEPT ![r] = [@ EXCEPT
                                               !.pc = "rejected",
                                               !.aiOutcome = "rejected",
                                               !.trace = Append(@, "recordFailure"),
                                               !.recordFailureCalls = @ + 1,
                                               !.saveAuditCalls = Append(@, entry),
                                               !.aiError = <<e>>,
                                        !.error = <<e>>]]
              /\ auditFile' = writeAuditLog(Append(auditFile.entries, entry))
    /\ failureCount' = recordFailure(failureCount)
    /\ failedSinceSuccess' = failedSinceSuccess + 1
    /\ UNCHANGED <<callLog, ret, received, keyConfigured>>

\* variant: the catch block throws an error of its own in place of the cause
AIRejects_Wrapped(r) ==
    /\ req[r].pc = "awaitAI"
    /\ \E e \in AIErrors :
          req' = [req EXCEPT ![r] = [@ EXCEPT
                                        !.pc = "rejected",
                                        !.aiOutcome = "rejected",
                                        !.trace = Append(@, "recordFailure"),
                                        !.recordFailureCalls = @ + 1,
                                        !.aiError = <<e>>,
                                        !.error = <<[name |-> "Error",
                                                     message |-> "AI call failed",
                                                     isCircuitOpen |-> FALSE]>>]]
    /\ failureCount' = recordFailure(failureCount)
    /\ failedSinceSuccess' = failedSinceSuccess + 1
    /\ UNCHANGED <<callLog, ret, received, auditFile, keyConfigured>>

\* variant: the failure is not recorded once the gate is open
AIRejects_LostWhenOpen(r) ==
    /\ req[r].pc = "awaitAI"
    /\ \E e \in AIErrors :
          req' = [req EXCEPT ![r] = [@ EXCEPT
                                        !.pc = "rejected",
                                        !.aiOutcome = "rejected",
                                        !.trace = Append(@, "recordFailure"),
                                        !.recordFailureCalls = @ + 1,
                                        !.aiError = <<e>>,
                                        !.error = <<e>>]]
    /\ failureCount' = IF isOpen(failureCount) THEN failureCount
                       ELSE recordFailure(failureCount)
    /\ failedSinceSuccess' = failedSinceSuccess + 1
    /\ UNCHANGED <<callLog, ret, received, auditFile, keyConfigured>>

\* the promise rejects: the catch block records the failure and rethrows
AIRejects(r) ==
    /\ req[r].pc = "awaitAI"
    /\ \E e \in AIErrors :
          req' = [req EXCEPT ![r] = [@ EXCEPT
                                        !.pc = "rejected",
                                        !.aiOutcome = "rejected",
                                        !.trace = Append(@, "recordFailure"),
                                        !.recordFailureCalls = @ + 1,
                                        !.aiError = <<e>>,
                                        !.error = <<e>>]]
    /\ failureCount' = recordFailure(failureCount)
    /\ failedSinceSuccess' = failedSinceSuccess + 1
    /\ UNCHANGED <<callLog, ret, received, auditFile, keyConfigured>>

\* variant: the entry keeps the message as received in sanitizedMessage
AuditEntry_RawSanitized(r, t, iv) ==
    [userId |-> req[r].userId,
     timestamp |-> t,
     originalMessageEncrypted |-> encrypt(req[r].message, iv),
     sanitizedMessage |-> req[r].message]

\* the audit entry built from the request once its answer has arrived
AuditEntry(r, t, iv) ==
    [userId |-> req[r].userId,
     timestamp |-> t,
     originalMessageEncrypted |-> encrypt(req[r].message, iv),
     sanitizedMessage |-> req[r].aiCalls[1]]

\* the promise resolves: record the success, take the time, encrypt the
\* original message (throws when no key is configured), call saveAudit,
\* which reads, extends and rewrites the file before it returns its promise,
\* and wait for that promise
AIResolves(r) ==
    /\ req[r].pc = "awaitAI"
    /\ failureCount' = recordSuccess(failureCount)
    /\ \E a \in Answers, t \in Timestamps, iv \in IVs :
          LET succeeded == [req[r] EXCEPT
                               !.aiOutcome = "resolved",
                               !.trace = @ \o <<"recordSuccess", "encrypt">>,
                               !.recordSuccessCalls = @ + 1,
                               !.answer = <<a>>,
                               !.encryptCalls = Append(@, req[r].message)]
              entry == AuditEntry(r, t, iv)
          IN  IF ~keyConfigured
              THEN /\ req' = [req EXCEPT ![r] = [succeeded EXCEPT
                                                    !.pc = "rejected",
                                                    !.error = <<KeyError>>]]
                   /\ UNCHANGED auditFile
              ELSE \E fs \in FlowFsOutcomes :
                      LET saved == saveAudit(auditFile, entry, fs)
                      IN  /\ req' = [req EXCEPT ![r] = [succeeded EXCEPT
                                                           !.pc = "awaitAudit",
                                                           !.trace = Append(@, "saveAudit"),
                                                           !.saveAuditCalls = Append(@, entry),
                                                           !.auditError = saved.error]]
                          /\ auditFile' = saved.file
    /\ failedSinceSuccess' = 0
    /\ UNCHANGED <<callLog, ret, received, keyConfigured>>

\* variant: a failed audit write is recorded as a failure at the gate
AuditSettles_RecordsFailure(r) ==
    /\ req[r].pc = "awaitAudit"
    /\ req' = [req EXCEPT ![r] =
                  IF req[r].auditError = <<>>
                  THEN [@ EXCEPT !.pc = "resolved"]
                  ELSE [@ EXCEPT !.pc = "rejected", !.error = req[r].auditError]]
    /\ failureCount' = IF req[r].auditError = <<>> THEN failureCount
                       ELSE recordFailure(failureCount)
    /\ UNCHANGED <<callLog, ret, received, auditFile, keyConfigured, failedSinceSuccess>>

\* variant: the answer is returned without waiting for saveAudit's outcome
AuditSettles_NoAwait(r) ==
    /\ req[r].pc = "awaitAudit"
    /\ req' = [req EXCEPT ![r] = [@ EXCEPT !.pc = "resolved"]]
    /\ UNCHANGED <<failureCount, callLog, ret, received, auditFile, keyConfigured, failedSinceSuccess>>

\* the promise of saveAudit settles: return the answer, or rethrow
AuditSettles(r) ==
    /\ req[r].pc = "awaitAudit"
    /\ req' = [req EXCEPT ![r] =
                  IF req[r].auditError = <<>>
                  THEN [@ EXCEPT !.pc = "resolved"]
                  ELSE [@ EXCEPT !.pc = "rejected", !.error = req[r].auditError]]
    /\ UNCHANGED <<failureCount, callLog, ret, received, auditFile, keyConfigured, failedSinceSuccess>>

\* the handler answers a body that fails validation at once, with 400 and
\* the validation message, and does not call executeSecureInquiry
RejectInvalid(r) ==
    /\ CanReceive(r)
    /\ \E body \in InvalidBodies :
          /\ req' = [req EXCEPT ![r] = [FreshRequest EXCEPT
                                        !.pc = "invalid",
                                        !.validationError = validateRequest(body).error]]
    /\ received' = received + 1
    /\ UNCHANGED <<failureCount, callLog, ret, auditFile, keyConfigured, failedSinceSuccess>>

\* the response the handler sends for a request: 400 when validation failed,
\* otherwise what it makes of the outcome of executeSecureInquiry; the
\* continuation after the await only writes the response, so it is read off
\* the request's outcome; status 0 stands for no response sent: the request
\* is still in flight, or the catch block read isCircuitOpen off null or
\* undefined, which throws a TypeError out of the handler
respond(q) ==
    IF q.pc = "invalid"
    THEN [status |-> 400, body |-> <<"error", q.validationError[1]>>]
    ELSE IF q.pc = "resolved"
    THEN [status |-> 200, body |-> <<"answer", q.answer[1]>>]
    ELSE IF q.pc = "rejected"
    THEN IF q.error[1] \in {Null, Undefined}
         THEN [status |-> 0, body |-> <<>>]
         ELSE IF q.error[1].name = "CircuitOpenError" \/ q.error[1].isCircuitOpen
         THEN [status |-> 503, body |-> <<"error", "Service Busy">>]
         ELSE [status |-> 500, body |-> <<"error", "Internal server error">>]
    ELSE [status |-> 0, body |-> <<>>]

Next ==
    \E r \in Reqs :
        \/ RejectOpen(r)
        \/ StartAICall(r)
        \/ AIThrows(r)
        \/ AIRejects(r)
        \/ AIResolves(r)
        \/ AuditSettles(r)

Spec == Init /\ [][Next]_vars

\* the endpoint: bodies of any kind arrive, and those that pass validation
\* enter executeSecureInquiry
HttpNext ==
    \E r \in HttpReqs :
        \/ RejectInvalid(r)
        \/ RejectOpen(r)
        \/ StartAICall(r)
        \/ AIThrows(r)
        \/ AIRejects(r)
        \/ AIResolves(r)
        \/ AuditSettles(r)

SpecHttp == Init /\ [][HttpNext]_vars

(***************************************************************************)
(* The endpoint behind adapters whose promises reject with values of any   *)
(* kind: the ports promise a rejection, not what is rejected with          *)
(***************************************************************************)
\* an error of an adapter that carries a truthy isCircuitOpen property
FlaggedError ==
    [name |-> "Error", message |-> "upstream breaker open", isCircuitOpen |-> TRUE]

RejectionValues == {Null, Undefined, FlaggedError}

\* the promise of generateAnswer rejects with a value of any kind: the catch
\* block records the failure and rethrows the value
AIRejectsWithAny(r) ==
    /\ req[r].pc = "awaitAI"
    /\ \E e \in RejectionValues :
          req' = [req EXCEPT ![r] = [@ EXCEPT
                                        !.pc = "rejected",
                                        !.aiOutcome = "rejected",
                                        !.trace = Append(@, "recordFailure"),
                                        !.recordFailureCalls = @ + 1,
                                        !.aiError = <<e>>,
                                        !.error = <<e>>]]
    /\ failureCount' = recordFailure(failureCount)
    /\ failedSinceSuccess' = failedSinceSuccess + 1
    /\ UNCHANGED <<callLog, ret, received, auditFile, keyConfigured>>

\* the promise of saveAudit rejects with a value of any kind, which the
\* awaiting flow rethrows
AuditRejectsWithAny(r) ==
    /\ req[r].pc = "awaitAudit"
    /\ \E e \in RejectionValues :
          req' = [req EXCEPT ![r] = [@ EXCEPT
                                        !.pc = "rejected",
                                        !.auditError = <<e>>,
                                        !.error = <<e>>]]
    /\ UNCHANGED <<failureCount, callLog, ret, received, auditFile, keyConfigured, failedSinceSuccess>>

HttpAnyNext ==
    \E r \in HttpReqs :
        \/ RejectInvalid(r)
        \/ RejectOpen(r)
        \/ StartAICall(r)
        \/ AIThrows(r)
        \/ AIRejects(r)
        \/ AIRejectsWithAny(r)
        \/ AIResolves(r)
        \/ AuditSettles(r)
        \/ AuditRejectsWithAny(r)

SpecHttpAny == Init /\ [][HttpAnyNext]_vars

(***************************************************************************)
(* The endpoint as the route wires it: the gate, the mock generation       *)
(* service the factory returns, and the JSON audit adapter                 *)
(***************************************************************************)
DEFAULT_RESPONSE == "Generated Answer"

\* variant: the mock rejects a message that holds nothing to redact
generateAnswer_RejectsPlain(sanitizedMessage) ==
    IF sanitizedMessage = MsgPlain
    THEN Threw([name |-> "Error", message |-> "AI timeout", isCircuitOpen |-> FALSE])
    ELSE Returned(DEFAULT_RESPONSE)

\* how the promise of the mock's generateAnswer settles: resolved with the
\* fixed response once the delay has passed, whatever the message
generateAnswer(sanitizedMessage) == Returned(DEFAULT_RESPONSE)

\* a valid body enters executeSecureInquiry: thrown out by the open gate, or
\* sanitized and handed to the generation service
WiredReceive(r) ==
    IF isOpen(failureCount) THEN RejectOpen(r) ELSE StartAICall(r)

\* the timer of the mock fires and the awaited promise settles
WiredAICompletes(r) ==
    /\ req[r].pc = "awaitAI"
    /\ LET settled == generateAnswer(req[r].aiCalls[1])
       IN  IF settled.threw
           THEN /\ AIRejects(r)
                /\ req'[r].error = settled.error
           ELSE /\ AIResolves(r)
                /\ req'[r].answer = <<settled.value>>

WiredNext ==
    \E r \in Reqs :
        \/ RejectInvalid(r)
        \/ WiredReceive(r)
        \/ WiredAICompletes(r)
        \/ AuditSettles(r)

SpecWired == Init /\ [][WiredNext]_vars

(***************************************************************************)
(* Direct calls of sanitize, with arguments of any type                    *)
(***************************************************************************)
\* variant: an argument that is not a string is turned into one and redacted
sanitizeAny_Coerces(x) == sanitize(x.v)

\* sanitize(x) for any value x: the empty string unless x is a string
sanitizeAny(x) == IF x.t # "string" THEN <<>> ELSE sanitize(x.v)

NonStrings ==
    {Undefined, Null, Num42, Num(<<"1", "2", "3", "4", "5">>),
     Num(<<"1", "2", "3", "4", "5", "6", "7", "8", "9">>),
     Bool(TRUE), Bool(FALSE), Obj(<<>>), Obj(MsgPlain), Arr(<<>>), Arr(MsgEmail)}

SanitizeInputs ==
    NonStrings \cup {Str(s) : s \in {<<>>, <<" ">>, <<"1">>, MsgPlain, MsgEmail, MsgSsn, MsgCard}}

CallSanitize ==
    /\ Len(callLog) < MaxCalls
    /\ \E x \in SanitizeInputs : ret' = <<"sanitize", x, sanitizeAny(x)>>
    /\ callLog' = Append(callLog, "sanitize")
    /\ UNCHANGED <<failureCount, req, received, auditFile, keyConfigured, failedSinceSuccess>>

SanitizeNext == CallSanitize

SpecSanitize == Init /\ [][SanitizeNext]_vars

(***************************************************************************)
(* Direct calls of sanitize and isValidLuhn on texts put together from     *)
(* fragments: letters, separators, digit runs of the lengths the detectors *)
(* tell apart, and an email address                                        *)
(***************************************************************************)
Digits8 == <<"1", "2", "3", "4", "5", "6", "7", "8">>
Digits9 == <<"1", "2", "3", "4", "5", "6", "7", "8", "9">>
\* a 13-digit number that passes the Luhn checksum
Card13 == <<"4", "2", "2", "2", "2", "2", "2", "2", "2", "2", "2", "2", "2">>
\* a 16-digit number that fails the Luhn checksum
Digits16 == <<"1", "2", "3", "4", "5", "6", "7", "8", "9", "0",
              "1", "2", "3", "4", "5", "6">>
Email6 == <<"a", "@", "b", ".", "c", "o">>

Fragments ==
    {<<"x">>, <<" ">>, <<"@">>, <<".">>, <<"7">>, <<"0">>,
     Digits8, Digits9, Card13, Digits16, Email6}

RECURSIVE TextsOf(_)
\* the texts made of at most n fragments
TextsOf(n) ==
    IF n = 0 THEN {<<>>}
    ELSE LET shorter == TextsOf(n - 1)
         IN  shorter \cup {t \o f : t \in shorter, f \in Fragments}

Texts == TextsOf(MaxParts)

IsDigits(s) == \A i \in 1..Len(s) : s[i] \in Digits

\* numbers whose checksum is known
LuhnVectors ==
    {<<"4", "5", "3", "2", "0", "1", "5", "1", "1", "2", "8", "3", "0", "3", "6", "6">>,
     <<"5", "5", "0", "0", "0", "0", "0", "0", "0", "0", "0", "0", "0", "0", "0", "4">>,
     <<"3", "4", "0", "0", "0", "0", "0", "0", "0", "0", "0", "0", "0", "0", "9">>,
     <<"7", "9", "9", "2", "7", "3", "9", "8", "7", "1", "3">>,
     <<"0", "0", "0", "0", "0", "0", "0", "0", "0", "0", "0", "0", "0", "0", "0", "0">>,
     <<"1", "1", "1", "1", "1", "1", "1", "1", "1", "1", "1", "1", "1", "1", "1", "1">>,
     <<"4", "5", "3", "2", "0", "1", "5", "1", "1", "2", "8", "3", "0", "3", "6", "7">>,
     <<"7", "9", "9", "2", "7", "3", "9", "8", "7", "1", "0">>}

\* a message holding an email address, a card number and an SSN
MsgMixed == Email6 \o <<",", " ">> \o Card13 \o <<",", " ">> \o Digits9 \o <<".">>

InitRedact ==
    /\ failureCount = 0
    /\ callLog = <<>>
    /\ ret \in {<<"text", s>> : s \in Texts \cup LuhnVectors \cup {MsgMixed}}
    /\ req = [r \in Reqs |-> FreshRequest]
    /\ received = 0
    /\ auditFile = writeAuditLog(<<>>)
    /\ keyConfigured = TRUE
    /\ failedSinceSuccess = 0

\* sanitize(text)
SanitizeText ==
    /\ ret[1] = "text"
    /\ ret' = <<"sanitize", ret[2], sanitize(ret[2])>>
    /\ callLog' = Append(callLog, "sanitize")
    /\ UNCHANGED <<failureCount, req, received, auditFile, keyConfigured, failedSinceSuccess>>

\* sanitize(result), the result being that of the sanitize call before
SanitizeResult ==
    /\ ret[1] = "sanitize"
    /\ Len(callLog) = 1
    /\ ret' = <<"sanitize", ret[3], sanitize(ret[3])>>
    /\ callLog' = Append(callLog, "sanitize")
    /\ UNCHANGED <<failureCount, req, received, auditFile, keyConfigured, failedSinceSuccess>>

\* isValidLuhn(text), for a text of digits
CheckLuhn ==
    /\ ret[1] = "text"
    /\ ret[2] # <<>>
    /\ IsDigits(ret[2])
    /\ ret' = <<"isValidLuhn", ret[2], isValidLuhn(ret[2])>>
    /\ callLog' = Append(callLog, "isValidLuhn")
    /\ UNCHANGED <<failureCount, req, received, auditFile, keyConfigured, failedSinceSuccess>>

RedactNext ==
    \/ SanitizeText
    \/ SanitizeResult
    \/ CheckLuhn

SpecRedact == InitRedact /\ [][RedactNext]_vars

(***************************************************************************)
(* Direct calls of encrypt and decrypt, with arguments of any type, the    *)
(* key being configured or not                                             *)
(***************************************************************************)
\* variant: the key is fetched before the argument is looked at
encryptAny_KeyFirst(x, iv, configured) ==
    IF ~configured THEN Threw(KeyError)
    ELSE IF x.t # "string" THEN Returned(<<>>)
    ELSE Returned(encrypt(x.v, iv))

\* encrypt(x) for any value x
encryptAny(x, iv, configured) ==
    IF x.t # "string" THEN Returned(<<>>)
    ELSE IF x.v = <<>> THEN Returned(<<>>)
    ELSE IF ~configured THEN Threw(KeyError)
    ELSE Returned(encrypt(x.v, iv))

\* decrypt(x) for any value x
decryptAny(x, configured) ==
    IF x.t # "string" THEN Returned(<<>>)
    ELSE decrypt(x.v, configured)

\* code units of the texts: a letter, the separator of the encrypted format,
\* a character of two UTF-8 bytes, and the two halves of a surrogate pair
PlainUnits == {"a", ":", "U+00E9", HighSurrogate, LowSurrogate}

RECURSIVE PlainTextsOf(_)
\* the texts of at most n code units
PlainTextsOf(n) ==
    IF n = 0 THEN {<<>>}
    ELSE LET shorter == PlainTextsOf(n - 1)
         IN  shorter \cup {Append(t, u) : t \in shorter, u \in PlainUnits}

PlainTexts == PlainTextsOf(MaxUnits)

\* texts that are not of the encrypted format: no colon, two colons, a
\* vector that is not hex
MalformedTexts ==
    {<<"i", "n", "v", "a", "l", "i", "d", "t", "e", "x", "t">>,
     <<"p", "1", ":", "p", "2", ":", "p", "3">>,
     <<"n", "o", "t", "v", "a", "l", "i", "d", "h", "e", "x", ":",
       "a", "b", "c", "d", "e", "f">>}

CryptoInputs ==
    NonStrings \cup {Str(t) : t \in PlainTexts \cup MalformedTexts}

InitCrypto ==
    /\ failureCount = 0
    /\ callLog = <<>>
    /\ ret \in {<<"arg", x>> : x \in CryptoInputs}
    /\ req = [r \in Reqs |-> FreshRequest]
    /\ received = 0
    /\ auditFile = writeAuditLog(<<>>)
    /\ keyConfigured \in BOOLEAN
    /\ failedSinceSuccess = 0

\* encrypt(arg)
CallEncrypt ==
    /\ ret[1] = "arg"
    /\ \E iv \in RandomIVs :
          ret' = <<"encrypt", ret[2], encryptAny(ret[2], iv, keyConfigured)>>
    /\ callLog' = Append(callLog, "encrypt")
    /\ UNCHANGED <<failureCount, req, received, auditFile, keyConfigured, failedSinceSuccess>>

\* decrypt(arg)
CallDecrypt ==
    /\ ret[1] = "arg"
    /\ ret' = <<"decrypt", ret[2], decryptAny(ret[2], keyConfigured)>>
    /\ callLog' = Append(callLog, "decrypt")
    /\ UNCHANGED <<failureCount, req, received, auditFile, keyConfigured, failedSinceSuccess>>

\* decrypt(encrypted), encrypted being what the encrypt call before returned;
\* the argument of that call is kept for comparison
CallDecryptEncrypted ==
    /\ ret[1] = "encrypt"
    /\ ~ret[3].threw
    /\ ret' = <<"decrypt", Str(ret[3].value),
                decryptAny(Str(ret[3].value), keyConfigured), ret[2]>>
    /\ callLog' = Append(callLog, "decrypt")
    /\ UNCHANGED <<failureCount, req, received, auditFile, keyConfigured, failedSinceSuccess>>

CryptoNext ==
    \/ CallEncrypt
    \/ CallDecrypt
    \/ CallDecryptEncrypted

SpecCrypto == InitCrypto /\ [][CryptoNext]_vars

(***************************************************************************)
(* Direct calls of the audit adapter's API, on a log file found in any     *)
(* condition at start                                                      *)
(***************************************************************************)
\* entries callers may hand to saveAudit
AuditEntries ==
    {[userId |-> u,
      timestamp |-> t,
      originalMessageEncrypted |-> encrypt(m, iv),
      sanitizedMessage |-> sanitize(m)] :
        u \in UserIds, t \in Timestamps, m \in Messages, iv \in IVs}

InitAudit ==
    /\ failureCount = 0
    /\ callLog = <<>>
    /\ ret = <<>>
    /\ req = [r \in Reqs |-> FreshRequest]
    /\ received = 0
    /\ auditFile \in {MissingFile, CorruptFile, ObjectFile, writeAuditLog(<<>>)}
    /\ keyConfigured = TRUE
    /\ failedSinceSuccess = 0

CallSaveAudit ==
    /\ Len(callLog) < MaxCalls
    /\ \E entry \in AuditEntries, fs \in FsOutcomes :
          LET saved == saveAudit(auditFile, entry, fs)
          IN  /\ auditFile' = saved.file
              /\ ret' = <<"saveAudit", [entry |-> entry, fs |-> fs,
                                        settled |-> saved.settled,
                                        error |-> saved.error]>>
    /\ callLog' = Append(callLog, "saveAudit")
    /\ UNCHANGED <<failureCount, req, received, keyConfigured, failedSinceSuccess>>

CallReadAuditLog ==
    /\ Len(callLog) < MaxCalls
    /\ auditFile' = ensureFileExists(auditFile)
    /\ ret' = <<"readAuditLog", readAuditLog(auditFile)>>
    /\ callLog' = Append(callLog, "readAuditLog")
    /\ UNCHANGED <<failureCount, req, received, keyConfigured, failedSinceSuccess>>

AuditNext ==
    \/ CallSaveAudit
    \/ CallReadAuditLog

SpecAudit == InitAudit /\ [][AuditNext]_vars

(***************************************************************************)
(* Properties of the failure gate                                          *)
(***************************************************************************)
\* the step is one in which the handler turns down a body at validation, so
\* that executeSecureInquiry is not invoked
AnsweredInvalid ==
    /\ received' = received + 1
    /\ \E r \in Reqs :
          /\ req'[r].pc = "invalid"
          /\ \A q \in Reqs \ {r} : req'[q] = req[q]

ClearingCalls == {"recordSuccess", "reset"}

RECURSIVE FailuresSinceClear(_)
\* number of recordFailure calls in the log after its last recordSuccess/reset
FailuresSinceClear(log) ==
    IF log = <<>> THEN 0
    ELSE LET last == log[Len(log)]
             front == SubSeq(log, 1, Len(log) - 1)
         IN  IF last \in ClearingCalls THEN 0
             ELSE IF last = "recordFailure" THEN 1 + FailuresSinceClear(front)
             ELSE FailuresSinceClear(front)

\* the step is one call of the gate operation op
IsCallOf(op) == callLog' = Append(callLog, op)

\* C1: after any sequence of recordFailure / recordSuccess / reset calls the
\* gate is open exactly when at least 3 recordFailure calls happened since
\* the most recent recordSuccess or reset (or since the start); failures
\* before a success never count.
C1_OpenIffThreeFailuresSinceClear ==
    isOpen(failureCount) <=> (FailuresSinceClear(callLog) >= 3)

\* three failures, then a success, then two failures: the gate is closed
C1_Witness ==
    /\ \E i \in 1..Len(callLog) :
          /\ callLog[i] = "recordSuccess"
          /\ FailuresSinceClear(SubSeq(callLog, 1, i - 1)) >= 3
    /\ FailuresSinceClear(callLog) = 2
    /\ ~isOpen(failureCount)

\* C2: whenever isOpen() is the last call made, the value it returned is
\* true exactly when the counter is at least 3; nothing but the counter
\* decides it.
C2_IsOpenIffCounterAtThreshold ==
    (callLog # <<>> /\ callLog[Len(callLog)] = "isOpen")
        => ret = <<"isOpen", failureCount >= 3>>

\* isOpen() has just returned true with the counter exactly at the threshold
C2_Witness ==
    /\ callLog # <<>>
    /\ callLog[Len(callLog)] = "isOpen"
    /\ failureCount = 3
    /\ ret = <<"isOpen", TRUE>>

\* C3: recordSuccess() and reset() both leave the counter at 0 whatever it
\* was before: after either call isOpen() is false and getFailureCount()
\* is 0.
C3_SuccessAndResetZeroTheCounter ==
    [][(IsCallOf("recordSuccess") \/ IsCallOf("reset"))
          => /\ failureCount' = 0
             /\ ~isOpen(failureCount')
             /\ getFailureCount(failureCount') = 0]_vars

\* recordSuccess() closed an open gate and reset() cleared a non-zero counter
C3_Witness ==
    /\ failureCount = 0
    /\ \E i \in 1..Len(callLog) :
          /\ callLog[i] = "recordSuccess"
          /\ FailuresSinceClear(SubSeq(callLog, 1, i - 1)) >= 3
    /\ callLog[Len(callLog)] = "reset"
    /\ FailuresSinceClear(SubSeq(callLog, 1, Len(callLog) - 1)) >= 1

\* C4: recordFailure() adds exactly 1 in every state, also above the
\* threshold; the counter is a natural number whose only changes are +1 and
\* a jump to 0, and the gate is open for every value above 3.
C4_FailureAddsOneNoSaturation ==
    [][/\ IsCallOf("recordFailure") => failureCount' = failureCount + 1
       /\ failureCount' # failureCount
             => (failureCount' = failureCount + 1 \/ failureCount' = 0)
       /\ failureCount' \in Nat
       /\ failureCount' > 3 => isOpen(failureCount')]_vars

\* a fifth consecutive failure has been counted
C4_Witness ==
    /\ failureCount = 5
    /\ FailuresSinceClear(callLog) = 5
    /\ isOpen(failureCount)

\* C5: an open gate is closed by no call other than recordSuccess() and
\* reset(): it stays open across isOpen(), getFailureCount() and
\* recordFailure().
C5_OnlySuccessOrResetCloses ==
    [][(isOpen(failureCount) /\ ~isOpen(failureCount'))
          => (IsCallOf("recordSuccess") \/ IsCallOf("reset"))]_vars

\* the gate opened, then was queried both ways and failed again, and is open
C5_Witness ==
    /\ isOpen(failureCount)
    /\ \E i \in 1..Len(callLog) :
          /\ FailuresSinceClear(SubSeq(callLog, 1, i)) = 3
          /\ \E j, k, l \in (i + 1)..Len(callLog) :
                /\ callLog[j] = "isOpen"
                /\ callLog[k] = "getFailureCount"
                /\ callLog[l] = "recordFailure"

\* C6: isOpen() and getFailureCount() leave the counter unchanged, and
\* getFailureCount() returns exactly the counter.
C6_QueriesArePure ==
    [][/\ (IsCallOf("isOpen") \/ IsCallOf("getFailureCount"))
             => failureCount' = failureCount
       /\ IsCallOf("getFailureCount")
             => ret' = <<"getFailureCount", failureCount>>]_vars

\* getFailureCount() was called twice in a row on a non-zero counter
C6_Witness ==
    /\ Len(callLog) >= 3
    /\ callLog[Len(callLog)] = "getFailureCount"
    /\ callLog[Len(callLog) - 1] = "getFailureCount"
    /\ failureCount = 2
    /\ ret = <<"getFailureCount", 2>>

(***************************************************************************)
(* Properties of executeSecureInquiry                                      *)
(***************************************************************************)
\* C7: a request taken in while the gate is open is rejected with
\* CircuitOpenError ('Service Busy', isCircuitOpen) and calls none of
\* sanitize, generateAnswer, encrypt, saveAudit, recordFailure and
\* recordSuccess; the counter is left as it was.
C7_OpenGateRejectsWithoutCalls ==
    [][(received' = received + 1 /\ failureCount >= 3 /\ ~AnsweredInvalid)
          => /\ failureCount' = failureCount
             /\ auditFile' = auditFile
             /\ \E r \in Reqs :
                   /\ req'[r].pc = "rejected"
                   /\ req'[r].error =
                         <<[name |-> "CircuitOpenError", message |-> "Service Busy",
                            isCircuitOpen |-> TRUE]>>
                   /\ req'[r].isOpenCalls = 1
                   /\ req'[r].sanitizeCalls = <<>>
                   /\ req'[r].aiCalls = <<>>
                   /\ req'[r].aiOutcome = "none"
                   /\ req'[r].encryptCalls = <<>>
                   /\ req'[r].saveAuditCalls = <<>>
                   /\ req'[r].recordFailureCalls = 0
                   /\ req'[r].recordSuccessCalls = 0
                   /\ req'[r].answer = <<>>
                   /\ \A q \in Reqs \ {r} : req'[q] = req[q]]_vars

\* a request has been rejected by the open gate
C7_Witness ==
    /\ failureCount >= 3
    /\ \E r \in Reqs :
          /\ req[r].pc = "rejected"
          /\ req[r].isOpenCalls = 1
          /\ req[r].error = <<CircuitOpenError>>

\* C8: every call of generateAnswer was started at an instant when the
\* counter was below 3, whatever the other requests in flight did before
\* and do after.
C8_AICallOnlyWhileClosed ==
    \A r \in Reqs :
        /\ Len(req[r].openAtAICall) = Len(req[r].aiCalls)
        /\ \A i \in DOMAIN req[r].openAtAICall : req[r].openAtAICall[i] = FALSE

\* a call started while the gate was closed is still in flight and the
\* gate has opened meanwhile, on the failure of a request started after it
C8_Witness ==
    /\ failureCount >= 3
    /\ \E r, q \in Reqs :
          /\ req[r].pc = "awaitAI"
          /\ req[r].openAtAICall = <<FALSE>>
          /\ req[q].pc = "rejected"
          /\ req[q].aiOutcome \in {"rejected", "threw"}

\* C9: a request whose generateAnswer call resolved has called
\* recordSuccess() once and recordFailure() never; one whose call rejected
\* or threw has called recordFailure() once and recordSuccess() never; a
\* request whose call is pending, or that made no call, has called neither.
C9_OneGateUpdatePerAICall ==
    \A r \in Reqs :
        /\ Len(req[r].aiCalls) <= 1
        /\ req[r].aiOutcome = "resolved"
              => (req[r].recordSuccessCalls = 1 /\ req[r].recordFailureCalls = 0)
        /\ req[r].aiOutcome \in {"rejected", "threw"}
              => (req[r].recordFailureCalls = 1 /\ req[r].recordSuccessCalls = 0)
        /\ req[r].aiOutcome = "pending"
              => (req[r].recordFailureCalls = 0 /\ req[r].recordSuccessCalls = 0)
        /\ req[r].aiCalls = <<>>
              => /\ req[r].aiOutcome = "none"
                 /\ req[r].recordFailureCalls = 0
                 /\ req[r].recordSuccessCalls = 0
        /\ req[r].aiCalls # <<>> => req[r].aiOutcome # "none"

\* one request's call resolved and the other's threw
C9_Witness ==
    \E r, q \in Reqs :
        /\ req[r].aiOutcome = "resolved"
        /\ req[r].recordSuccessCalls = 1
        /\ req[q].aiOutcome = "threw"
        /\ req[q].recordFailureCalls = 1

\* C10: generateAnswer receives exactly what sanitize returned for the
\* request's message, never the message itself when the two differ, and
\* encrypt receives the message as received, never the sanitized one.
C10_OnlySanitizedToAIRawToEncrypt ==
    \A r \in Reqs :
        /\ \A i \in DOMAIN req[r].sanitizeCalls :
              req[r].sanitizeCalls[i] = req[r].message
        /\ \A i \in DOMAIN req[r].aiCalls :
              /\ req[r].aiCalls[i] = sanitize(req[r].message)
              /\ req[r].message = MsgSsn
                    => req[r].aiCalls[i] = <<"i", "d", " ">> \o SSN_PLACEHOLDER
        /\ \A i \in DOMAIN req[r].encryptCalls :
              /\ req[r].encryptCalls[i] = req[r].message
              /\ req[r].message = MsgSsn
                    => req[r].encryptCalls[i] # <<"i", "d", " ">> \o SSN_PLACEHOLDER

\* a message holding a nine-digit number went redacted to the generation
\* service and as received to encryption
C10_Witness ==
    \E r \in Reqs :
        /\ req[r].message = MsgSsn
        /\ req[r].aiCalls = << <<"i", "d", " ">> \o SSN_PLACEHOLDER >>
        /\ req[r].encryptCalls = <<MsgSsn>>


(***************************************************************************)
(* Properties of the audit trail and of the outcome of a request           *)
(***************************************************************************)
\* what one request has asked of the encryption and audit collaborators
AuditedOnlyAfterAnswer(q) ==
    /\ Len(q.encryptCalls) <= 1
    /\ Len(q.saveAuditCalls) <= 1
    /\ (q.encryptCalls # <<>> \/ q.saveAuditCalls # <<>>) =>
          /\ q.aiOutcome = "resolved"
          /\ q.recordSuccessCalls = 1
    /\ (q.error = <<CircuitOpenError>> \/ q.aiOutcome \in {"rejected", "threw"}) =>
          /\ q.encryptCalls = <<>>
          /\ q.saveAuditCalls = <<>>

\* C11: encrypt and saveAudit are called only for a request whose generation
\* call has resolved, at most once each; a request rejected by the open gate
\* or whose generation call failed writes nothing; the stored log changes
\* only in the step in which an answer arrives, by that request's one entry
C11_AuditOnlyAfterAISuccess ==
    [][/\ \A r \in Reqs : AuditedOnlyAfterAnswer(req'[r])
       /\ auditFile' # auditFile =>
             \E r \in Reqs :
                /\ req[r].aiOutcome = "pending"
                /\ req'[r].aiOutcome = "resolved"
                /\ Len(req'[r].saveAuditCalls) = 1
                /\ auditFile' = writeAuditLog(Append(auditFile.entries,
                                                     req'[r].saveAuditCalls[1]))]_vars

\* one request failed at the generation service and a later one was audited
C11_Witness ==
    /\ Len(auditFile.entries) = 1
    /\ \E r, s \in Reqs :
          /\ req[r].aiOutcome = "rejected"
          /\ req[r].saveAuditCalls = <<>>
          /\ req[s].pc = "resolved"
          /\ req[s].saveAuditCalls = <<auditFile.entries[1]>>


\* C12: when the generation call fails, executeSecureInquiry rejects with the
\* very error the service produced, after exactly one recordFailure() and
\* no recordSuccess()
C12_AIFailureRethrownUnchanged ==
    \A r \in Reqs :
        req[r].aiOutcome \in {"rejected", "threw"} =>
            /\ req[r].pc = "rejected"
            /\ req[r].aiError # <<>>
            /\ req[r].aiError[1] \in AIErrors
            /\ req[r].error = req[r].aiError
            /\ req[r].recordFailureCalls = 1
            /\ req[r].recordSuccessCalls = 0

\* both kinds of failure, each with its own error, have reached the callers
C12_Witness ==
    \E r, s \in Reqs :
        /\ req[r].aiOutcome = "rejected"
        /\ req[s].aiOutcome = "threw"
        /\ req[r].error # req[s].error
        /\ req[r].error = req[r].aiError
        /\ req[s].error = req[s].aiError


\* the collaborator calls of a request that succeeds, in order
SuccessTrace ==
    <<"isOpen", "sanitize", "generateAnswer", "recordSuccess", "encrypt", "saveAudit">>

\* C13: a request that succeeds has called isOpen, sanitize, generateAnswer,
\* recordSuccess, encrypt and saveAudit in this order, each exactly once, and
\* its answer is returned only in the step after saveAudit has resolved, with
\* its entry in the stored log
C13_SuccessOrderAndAnswerAfterAudit ==
    [][\A r \in Reqs :
          /\ req'[r].pc = "resolved" =>
                /\ req'[r].trace = SuccessTrace
                /\ req'[r].answer # <<>>
                /\ req'[r].error = <<>>
          /\ (req'[r].pc = "resolved" /\ req'[r] # req[r]) =>
                /\ req[r].pc = "awaitAudit"
                /\ req[r].auditError = <<>>
                /\ \E i \in 1..Len(auditFile.entries) : auditFile.entries[i] = req[r].saveAuditCalls[1]
                /\ req'[r] = [req[r] EXCEPT !.pc = "resolved"]]_vars

\* a request has returned its answer while another one's audit write failed
C13_Witness ==
    \E r, s \in Reqs :
        /\ req[r].pc = "resolved"
        /\ req[r].trace = SuccessTrace
        /\ req[s].trace = SuccessTrace
        /\ req[s].pc = "rejected"
        /\ req[s].error = <<WriteError>>


AuditEntryFields == {"userId", "timestamp", "originalMessageEncrypted", "sanitizedMessage"}

NoCalls(q) ==
    /\ q.trace = <<>>
    /\ q.isOpenCalls = 0
    /\ q.sanitizeCalls = <<>>
    /\ q.aiCalls = <<>>
    /\ q.recordSuccessCalls = 0
    /\ q.recordFailureCalls = 0
    /\ q.encryptCalls = <<>>
    /\ q.saveAuditCalls = <<>>

C14_ClosedValidSuccessGives200AndAudit ==
    \A r \in Reqs :
        (req[r].aiOutcome = "resolved" /\ req[r].pc \in {"resolved", "rejected"}) =>
            /\ respond(req[r]) = [status |-> 200, body |-> <<"answer", req[r].answer[1]>>]
            /\ Len(req[r].saveAuditCalls) = 1
            /\ \E i \in 1..Len(auditFile.entries) : auditFile.entries[i] = req[r].saveAuditCalls[1]


\* C17: in the running system, once the circuit has opened after 3 failures
\* it stays open: no step of a request handled by executeSecureInquiry
\* closes it
C17_NoRequestClosesOpenGate ==
    [][isOpen(failureCount) => isOpen(failureCount')]_vars


(***************************************************************************)
(* Properties of the audit adapter                                         *)
(***************************************************************************)
\* the entries the file holds: those of the array it contains, if any
StoredEntries(file) == IF file.kind = "array" THEN file.entries ELSE <<>>

\* C18: the audit log is append-only: when saveAudit(e) resolves, the
\* stored log is the previously stored entries, unchanged and in order,
\* followed by e; and no call drops, overwrites or reorders an earlier entry
C18_AuditLogAppendOnly ==
    [][/\ (IsCallOf("saveAudit") /\ ret'[2].settled = "resolved") =>
             /\ auditFile'.kind = "array"
             /\ auditFile'.entries = Append(StoredEntries(auditFile), ret'[2].entry)
       /\ (IsCallOf("saveAudit") /\ ret'[2].settled = "rejected") =>
             StoredEntries(auditFile') = StoredEntries(auditFile)
       /\ IsCallOf("readAuditLog") =>
             StoredEntries(auditFile') = StoredEntries(auditFile)]_vars

\* three entries, not all alike, are stored in the order they were saved,
\* one call in between not having added any
C18_Witness ==
    /\ Len(callLog) >= 4
    /\ ret[1] = "saveAudit"
    /\ ret[2].settled = "resolved"
    /\ Len(auditFile.entries) = 3
    /\ auditFile.entries[1] # auditFile.entries[2]
    /\ auditFile.entries[3] = ret[2].entry

\* C19: the promise saveAudit returns resolves only after the entry has
\* been written, and rejects with the underlying error when the read or the
\* write fails; it never resolves when the write failed, and every call
\* ends in a settled promise, not in an exception thrown to the caller
C19_SaveAuditPromise ==
    [][IsCallOf("saveAudit") =>
          LET out == ret'[2]
          IN  /\ out.settled \in {"resolved", "rejected"}
              /\ out.settled = "resolved" =>
                    /\ out.fs = "ok"
                    /\ out.error = <<>>
                    /\ auditFile'.kind = "array"
                    /\ auditFile'.entries # <<>>
                    /\ auditFile'.entries[Len(auditFile'.entries)] = out.entry
              /\ out.fs = "readFails" =>
                    /\ out.settled = "rejected"
                    /\ out.error = <<ReadError>>
              /\ out.fs = "writeFails" =>
                    /\ out.settled = "rejected"
                    /\ out.error \in {<<WriteError>>, <<PushTypeError>>}
                    /\ auditFile.kind # "object" => out.error = <<WriteError>>
              /\ out.settled = "rejected" => out.error # <<>>]_vars

\* a write failed after an entry had been stored: the promise was rejected
\* with the write error and the file still holds just that entry
C19_Witness ==
    /\ Len(callLog) >= 2
    /\ ret[1] = "saveAudit"
    /\ ret[2].fs = "writeFails"
    /\ ret[2].settled = "rejected"
    /\ ret[2].error = <<WriteError>>
    /\ Len(auditFile.entries) = 1


(***************************************************************************)
(* Properties of the sanitizer                                             *)
(***************************************************************************)
\* C20: sanitize(x) returns the empty string, and raises no exception, for
\* every x that is not a string (number, boolean, object, array, null,
\* undefined) and for the empty string
C20_NonStringOrEmptyGivesEmpty ==
    (ret # <<>> /\ ret[1] = "sanitize") =>
        /\ ret[2] \in NonStrings => (ret[2].t # "string" /\ ret[3] = <<>>)
        /\ ret[2] = Str(<<>>) => ret[3] = <<>>
        /\ ret[3] \in Seq(STRING)

\* a number of nine digits, which as a string would be redacted, came after
\* an array holding an email address, and gave the empty string
C20_Witness ==
    /\ Len(callLog) >= 2
    /\ ret = <<"sanitize", Num(<<"1", "2", "3", "4", "5", "6", "7", "8", "9">>), <<>>>>
    /\ sanitize(ret[2].v) = SSN_PLACEHOLDER

RECURSIVE EmailSpansFrom(_, _)
\* the spans <<first, last>> of s, from position i on, that the email
\* detector matches, found from left to right without overlap
EmailSpansFrom(s, i) ==
    IF i > Len(s) THEN {}
    ELSE LET e == EmailEndAt(s, i)
         IN  IF e # 0 THEN {<<i, e - 1>>} \cup EmailSpansFrom(s, e)
             ELSE EmailSpansFrom(s, i + 1)

EmailSpans(s) == EmailSpansFrom(s, 1)

\* the maximal runs of digits of s
DigitRuns(s) ==
    {<<i, RunEnd(s, i, Digits) - 1>> : i \in {j \in 1..Len(s) : DigitRunStart(s, j)}}

\* the digit runs of s outside every email address
FreeDigitRuns(s) ==
    LET emails == EmailSpans(s)
    IN  {run \in DigitRuns(s) :
            \A e \in emails : e[2] < run[1] \/ run[2] < e[1]}

\* the spans <<first, last, placeholder>> of s that the detectors match:
\* email addresses, and outside them the runs of 13 to 19 digits that pass
\* the Luhn checksum and the runs of 9 digits
MatchedSpans(s) ==
    {<<e[1], e[2], EMAIL_PLACEHOLDER>> : e \in EmailSpans(s)}
    \cup {<<run[1], run[2], CREDIT_CARD_PLACEHOLDER>> :
            run \in {x \in FreeDigitRuns(s) :
                        /\ x[2] - x[1] + 1 \in 13..19
                        /\ isValidLuhn(SubSeq(s, x[1], x[2]))}}
    \cup {<<run[1], run[2], SSN_PLACEHOLDER>> :
            run \in {x \in FreeDigitRuns(s) : x[2] - x[1] + 1 = 9}}

RECURSIVE ReplacedFrom(_, _, _)
\* s from position i on, every span of spans replaced by its placeholder and
\* every other character kept
ReplacedFrom(s, i, spans) ==
    IF i > Len(s) THEN <<>>
    ELSE IF \E sp \in spans : sp[1] = i
         THEN LET sp == CHOOSE x \in spans : x[1] = i
              IN  sp[3] \o ReplacedFrom(s, sp[2] + 1, spans)
         ELSE <<s[i]>> \o ReplacedFrom(s, i + 1, spans)

\* C21: a text in which no detector (email, credit card, SSN) matches a span
\* comes back from sanitize unchanged; in general the result is the text with
\* each matched span replaced by its placeholder and every other character
\* kept, in order
C21_OnlyMatchedSpansChange ==
    (ret[1] = "sanitize") =>
        LET spans == MatchedSpans(ret[2])
        IN  /\ spans = {} => ret[3] = ret[2]
            /\ ret[3] = ReplacedFrom(ret[2], 1, spans)

\* an email address was replaced, and the eight digits and the space before
\* it, which no detector matches, were kept
C21_Witness ==
    /\ ret[1] = "sanitize"
    /\ ret[2] = Digits8 \o <<" ">> \o Email6
    /\ ret[3] = Digits8 \o <<" ">> \o EMAIL_PLACEHOLDER

\* the text before position i, and the text after position j
Before(s, i) == SubSeq(s, 1, i - 1)
After(s, j) == SubSeq(s, j + 1, Len(s))

\* C22: a run of 13 to 19 digits delimited by non-digits or string edges is
\* replaced by '<REDACTED: CREDIT_CARD>' if and only if it passes the Luhn
\* checksum; a run of 13 to 19 digits that fails it, and a run of 20 digits
\* or more, stay as they are; the text around the run comes out as it would
\* without the run
C22_CardRunRedactedIffLuhn ==
    (ret[1] = "sanitize") =>
        \A run \in FreeDigitRuns(ret[2]) :
            LET digits == SubSeq(ret[2], run[1], run[2])
                around(x) == sanitize(Before(ret[2], run[1])) \o x
                                 \o sanitize(After(ret[2], run[2]))
            IN  /\ (Len(digits) \in 13..19 /\ isValidLuhn(digits))
                       => ret[3] = around(CREDIT_CARD_PLACEHOLDER)
                /\ (Len(digits) \in 13..19 /\ ~isValidLuhn(digits))
                       => ret[3] = around(digits)
                /\ Len(digits) >= 20 => ret[3] = around(digits)

\* of two runs in one text, the 13 digits that pass the checksum were
\* replaced and the 16 digits that fail it were kept
C22_Witness ==
    /\ ret[1] = "sanitize"
    /\ ret[2] = Card13 \o <<" ">> \o Digits16
    /\ isValidLuhn(Card13) /\ ~isValidLuhn(Digits16)
    /\ ret[3] = CREDIT_CARD_PLACEHOLDER \o <<" ">> \o Digits16

\* a run of 21 digits, of which the first 13 pass the checksum, was kept
LongDigitRunKept ==
    /\ ret[1] = "sanitize"
    /\ ret[2] = <<"x">> \o Card13 \o Digits8
    /\ ret[3] = ret[2]

\* C23: every run of exactly 9 digits delimited by non-digits or string edges
\* is replaced by '<REDACTED: SSN>', whatever its digits; a run of 8 or of 10
\* digits stays as it is
C23_NineDigitRunRedacted ==
    (ret[1] = "sanitize") =>
        \A run \in FreeDigitRuns(ret[2]) :
            LET digits == SubSeq(ret[2], run[1], run[2])
                pre == sanitize(Before(ret[2], run[1]))
                post == sanitize(After(ret[2], run[2]))
            IN  /\ Len(digits) = 9 => ret[3] = pre \o SSN_PLACEHOLDER \o post
                /\ Len(digits) \in {8, 10} => ret[3] = pre \o digits \o post

\* of two runs in one text, the 8 digits were kept and the 9 digits replaced
C23_Witness ==
    /\ ret[1] = "sanitize"
    /\ ret[2] = Digits8 \o <<" ">> \o Digits9
    /\ ret[3] = Digits8 \o <<" ">> \o SSN_PLACEHOLDER

\* a run of 10 digits was kept
TenDigitRunKept ==
    /\ ret[1] = "sanitize"
    /\ ret[2] = <<"x">> \o Digits9 \o <<"7">>
    /\ ret[3] = ret[2]

RECURSIVE LuhnTotal(_)
\* the Luhn sum of the digits d, taken from the left: the first of an even
\* number of digits stands at an even position from the right and counts as
\* the sum of the digits of its double
LuhnTotal(d) ==
    IF d = <<>> THEN 0
    ELSE LET v == DigitValue(Head(d))
         IN  (IF Len(d) % 2 = 0 THEN ((2 * v) \div 10) + ((2 * v) % 10) ELSE v)
                 + LuhnTotal(Tail(d))

\* d with its last digit replaced by c
WithLastDigit(d, c) == [d EXCEPT ![Len(d)] = c]

\* C24: isValidLuhn(d) is true exactly when the Luhn sum of d is divisible by
\* 10, whatever the length and the leading digits of d; a string of zeros is
\* valid; changing only the last digit of a valid string makes it invalid
C24_LuhnIsChecksumOnly ==
    (ret[1] = "isValidLuhn") =>
        LET d == ret[2]
        IN  /\ ret[3] = (LuhnTotal(d) % 10 = 0)
            /\ (\A i \in 1..Len(d) : d[i] = "0") => ret[3] = TRUE
            /\ ret[3] = TRUE =>
                   \A c \in Digits \ {d[Len(d)]} : ~isValidLuhn(WithLastDigit(d, c))

\* the number 79927398713 was found valid, and with 0 for its last digit it
\* is not
C24_Witness ==
    /\ ret[1] = "isValidLuhn"
    /\ ret[2] = <<"7", "9", "9", "2", "7", "3", "9", "8", "7", "1", "3">>
    /\ ret[3] = TRUE
    /\ ~isValidLuhn(WithLastDigit(ret[2], "0"))

\* C25: sanitize(sanitize(s)) = sanitize(s): no detector matches a
\* placeholder, and a result of sanitize holds no span that a detector
\* matches, so that a repeated call finds nothing to replace
C25_SanitizeIdempotent ==
    /\ \A p \in {EMAIL_PLACEHOLDER, CREDIT_CARD_PLACEHOLDER, SSN_PLACEHOLDER} :
          MatchedSpans(p) = {}
    /\ (ret[1] = "sanitize") =>
          /\ MatchedSpans(ret[3]) = {}
          /\ Len(callLog) = 2 => (ret[3] = ret[2] /\ sanitize(ret[3]) = ret[3])

\* sanitize was called on its own result, which held two placeholders, and
\* returned it unchanged
C25_Witness ==
    /\ callLog = <<"sanitize", "sanitize">>
    /\ ret[2] = EMAIL_PLACEHOLDER \o <<" ">> \o SSN_PLACEHOLDER
    /\ ret[3] = ret[2]

\* C26: sanitize runs the email pass, then the credit-card pass on its
\* output, then the SSN pass on the output of that; so a matched email
\* address, digit runs inside it included, becomes one EMAIL placeholder and
\* the text on either side of it comes out as it would alone, each match in
\* it with the placeholder of its own kind
C26_EmailThenCardThenSsn ==
    (ret[1] = "sanitize" /\ ret[2] # <<>>) =>
        /\ ret[3] = ssnPass(cardPass(emailPass(ret[2])))
        /\ \A e \in EmailSpans(ret[2]) :
              ret[3] = sanitize(Before(ret[2], e[1])) \o EMAIL_PLACEHOLDER
                           \o sanitize(After(ret[2], e[2]))

\* an address whose local part starts with nine digits, which on their own
\* are replaced as an SSN, became one EMAIL placeholder
C26_Witness ==
    /\ ret[1] = "sanitize"
    /\ ret[2] = Digits9 \o Email6
    /\ sanitize(Digits9 \o <<"a">>) = SSN_PLACEHOLDER \o <<"a">>
    /\ ret[3] = EMAIL_PLACEHOLDER

\* a message with an email address, a card number and an SSN had each
\* replaced by the placeholder of its kind
MixedKindsRedacted ==
    /\ ret[1] = "sanitize"
    /\ ret[2] = MsgMixed
    /\ ret[3] = EMAIL_PLACEHOLDER \o <<",", " ">> \o CREDIT_CARD_PLACEHOLDER
                    \o <<",", " ">> \o SSN_PLACEHOLDER \o <<".">>

(***************************************************************************)
(* Properties of the encryption                                            *)
(***************************************************************************)
\* the state follows decrypt(encrypt(t)) for a non-empty string t, the key
\* being configured
RoundTripDone ==
    /\ ret[1] = "decrypt"
    /\ Len(ret) = 4
    /\ keyConfigured
    /\ ret[4].t = "string"
    /\ ret[4].v # <<>>

\* no surrogate of s stands without its partner
WellFormed(s) ==
    \A i \in DOMAIN s :
        /\ s[i] = HighSurrogate => (i < Len(s) /\ s[i + 1] = LowSurrogate)
        /\ s[i] = LowSurrogate => (i > 1 /\ s[i - 1] = HighSurrogate)

\* C27: with a key configured, decrypt(encrypt(t)) = t for every non-empty
\* string t, whichever initialisation vector encrypt drew
C27_DecryptInvertsEncrypt ==
    RoundTripDone => (~ret[3].threw /\ ret[3].value = ret[4].v)

\* decrypt(encrypt(t)) = t for every non-empty string t in which no
\* surrogate stands without its partner
RoundTripOfWellFormed ==
    (RoundTripDone /\ WellFormed(ret[4].v)) =>
        (~ret[3].threw /\ ret[3].value = ret[4].v)

\* a text holding a colon, a two-byte character and a surrogate pair came
\* back from decrypt(encrypt(t))
RoundTripReached ==
    /\ RoundTripDone
    /\ ret[4].v = <<":", "U+00E9", HighSurrogate>>
    /\ ret[3].value = <<":", "U+00E9", ReplacementChar>>

\* C28: encrypt and decrypt return the empty string, without asking for the
\* key and without throwing, for every argument that is not a string and
\* for the empty string; for a non-empty string they throw when no key is
\* configured; decrypt throws 'Invalid encrypted text format' for a
\* non-empty string that is not two parts separated by one colon
C28_CryptoGuards ==
    (ret[1] \in {"encrypt", "decrypt"} /\ Len(ret) = 3) =>
        LET x == ret[2]
            result == ret[3]
            colons == {i \in DOMAIN x.v : x.v[i] = ":"}
        IN  /\ (x.t # "string" \/ x.v = <<>>) => result = Returned(<<>>)
            /\ (x.t = "string" /\ x.v # <<>> /\ ~keyConfigured) => result.threw
            /\ (ret[1] = "encrypt" /\ result.threw) => result = Threw(KeyError)
            /\ (ret[1] = "decrypt" /\ x.t = "string" /\ x.v # <<>>
                    /\ Cardinality(colons) # 1)
                   => result = Threw(FormatError)

\* with no key configured, decrypt of a text with two colons threw the
\* format error
C28_Witness ==
    /\ ~keyConfigured
    /\ ret[1] = "decrypt"
    /\ ret[2] = Str(<<"p", "1", ":", "p", "2", ":", "p", "3">>)
    /\ ret[3] = Threw(FormatError)

\* with no key configured, encrypt of a number returned the empty string
EncryptOfNumberWithoutKey ==
    /\ ~keyConfigured
    /\ ret[1] = "encrypt"
    /\ ret[2] = Num42
    /\ ret[3] = Returned(<<>>)

(***************************************************************************)
(* Properties of the gate in the composed system                           *)
(***************************************************************************)
\* in this step the pending generation-service call of request r completes
AICompletes(r) ==
    /\ req[r].pc = "awaitAI"
    /\ req'[r].aiOutcome \in {"rejected", "resolved"}

\* in this step a request is received; it is answered at once (turned down
\* at validation or by the open gate, or generateAnswer throws) or it is
\* sanitized and suspended at the generation-service call
Receives == received' = received + 1

\* C29: the failure counter changes only when a generation-service call
\* completes: it grows by one when the call fails and becomes 0 when it
\* succeeds. A body turned down at validation, a rejection by the open gate,
\* sanitizing, an encryption error and the outcome of the audit write leave
\* it as it is; a request whose call succeeded and whose encryption or audit
\* write failed has called recordSuccess once and recordFailure never
C29_CounterChangesOnlyAtAICompletion ==
    [][/\ failureCount' # failureCount =>
             \/ \E r \in Reqs :
                   /\ AICompletes(r)
                   /\ failureCount' = IF req'[r].aiOutcome = "resolved" THEN 0
                                       ELSE failureCount + 1
             \/ /\ Receives
                /\ failureCount' = failureCount + 1
                /\ \E r \in Reqs : /\ req'[r].aiOutcome = "threw"
                                   /\ req'[r].recordFailureCalls = 1
       /\ (Receives /\ \A r \in Reqs : req'[r].aiOutcome # "threw")
             => failureCount' = failureCount
       /\ \A r \in Reqs :
             /\ AICompletes(r) =>
                   failureCount' = IF req'[r].aiOutcome = "resolved" THEN 0
                                   ELSE failureCount + 1
             /\ (req[r].pc = "awaitAudit" /\ req'[r].pc # "awaitAudit")
                   => failureCount' = failureCount
             /\ (req'[r].aiOutcome = "resolved"
                     /\ (req'[r].error # <<>> \/ req'[r].auditError # <<>>))
                   => /\ req'[r].recordSuccessCalls = 1
                      /\ req'[r].recordFailureCalls = 0
             /\ req'[r].aiOutcome = "none" => req'[r].recordFailureCalls = 0]_vars

\* the second request received was rejected with the error of the audit
\* write after its generation call had succeeded; it called recordSuccess
\* and not recordFailure, and the counter is 0
C29_Witness ==
    \E r \in Reqs :
        /\ received >= 2
        /\ req[r].pc = "rejected"
        /\ req[r].aiOutcome = "resolved"
        /\ req[r].error = <<WriteError>>
        /\ req[r].recordSuccessCalls = 1
        /\ req[r].recordFailureCalls = 0
        /\ failureCount = 0

\* C30: however concurrent executeSecureInquiry calls interleave on the shared
\* gate, no update of the gate is lost or counted twice: at every instant the
\* failure counter equals the number of generation-service calls that
\* completed with failure after the last one that completed with success
\* (or since the start)
C30_CounterEqualsFailuresSinceSuccess ==
    failureCount = failedSinceSuccess

\* two requests were in flight together when the counter stood at 2; both
\* failed, and the counter is 4, one more than the threshold
C30_Witness ==
    /\ failureCount = FAILURE_THRESHOLD + 1
    /\ failedSinceSuccess = FAILURE_THRESHOLD + 1
    /\ \A r \in Reqs : req[r].aiOutcome = "rejected" /\ req[r].openAtAICall = <<FALSE>>

\* a request admitted before the gate opened succeeded after it had opened,
\* while another request was still in flight: the counter is 0 again
CounterClearedWhileInFlight ==
    \E r, q \in Reqs :
        /\ failureCount = 0
        /\ received = MaxRequests
        /\ req[r].aiOutcome = "resolved"
        /\ req[q].pc = "awaitAI"

\* the calls of the generation service that have not completed yet
PendingAICalls == {r \in Reqs : req[r].pc = "awaitAI"}

OpenAndQuiet == isOpen(failureCount) /\ PendingAICalls = {}

\* C32: once the gate is open with no generation call in flight, every step
\* of the flow leaves it so: the counter and the audit log keep their
\* values, no request reaches the generation service, and every request
\* that arrives is rejected with CircuitOpenError and answered 503
C32_OpenGateNeverRecovers ==
    [][OpenAndQuiet =>
          /\ OpenAndQuiet'
          /\ failureCount' = failureCount
          /\ auditFile' = auditFile
          /\ \A r \in Reqs : Len(req'[r].aiCalls) <= Len(req[r].aiCalls)
          /\ Receives =>
                \E r \in Reqs :
                   /\ req'[r].pc = "rejected"
                   /\ req'[r].error = <<CircuitOpenError>>
                   /\ req'[r].aiCalls = <<>>
                   /\ req'[r].saveAuditCalls = <<>>
                   /\ respond(req'[r]).status = 503]_vars

\* a request has been turned away by the open gate after the last
\* generation call completed, its audit log and counter as they were
C32_Witness ==
    /\ OpenAndQuiet
    /\ received = MaxRequests
    /\ \E r \in Reqs :
          /\ req[r].pc = "rejected"
          /\ req[r].error = <<CircuitOpenError>>
          /\ respond(req[r]).status = 503

\* the handling of the request has come to its end
Handled(q) == q.pc \in {"invalid", "resolved", "rejected"}

\* C33: a request is answered 503 only if it was turned away by the open
\* gate, with no call of the generation service and no audit entry; a
\* request whose generation call or audit write failed is never answered 503
C33_BusyOnlyForGateRejections ==
    \A r \in HttpReqs :
       LET q == req[r]
       IN  /\ respond(q).status = 503 =>
                 /\ q.error = <<CircuitOpenError>>
                 /\ q.aiCalls = <<>>
                 /\ q.saveAuditCalls = <<>>
           /\ (q.pc = "rejected" /\ (q.aiError # <<>> \/ q.auditError # <<>>)) =>
                 respond(q).status # 503

\* C34: every request whose handling has come to its end has been sent a
\* response, with status 200, 400, 503 or 500, whatever the generation
\* service or the audit storage rejected with
C34_EveryHandledRequestAnswered ==
    \A r \in HttpReqs :
       Handled(req[r]) => respond(req[r]).status \in {200, 400, 503, 500}

\* C35: on file content that cannot be parsed readAuditLog returns an empty
\* list and leaves the file alone; a saveAudit made on such content, the
\* file system working, resolves and leaves the file holding the new entry
\* and nothing else
C35_CorruptLogReadsAsEmpty ==
    [][/\ (IsCallOf("readAuditLog") /\ auditFile.kind = "corrupt") =>
             /\ ret'[2] = [isArray |-> TRUE, entries |-> <<>>]
             /\ auditFile' = auditFile
       /\ (IsCallOf("saveAudit") /\ auditFile.kind = "corrupt" /\ ret'[2].fs = "ok") =>
             /\ ret'[2].settled = "resolved"
             /\ ret'[2].error = <<>>
             /\ auditFile' = writeAuditLog(<<ret'[2].entry>>)]_vars

\* readAuditLog has returned the empty list for a file that is still
\* corrupted, after a saveAudit whose write failed
C35_Witness ==
    /\ auditFile.kind = "corrupt"
    /\ Len(callLog) >= 2
    /\ callLog[Len(callLog) - 1] = "saveAudit"
    /\ ret = <<"readAuditLog", [isArray |-> TRUE, entries |-> <<>>]>>

\* C36: wired with the mock generation service, which always resolves, the
\* flow never calls recordFailure: the Failure Counter is 0 and the gate
\* closed in every reachable state, and no request is answered 503
C36_MockNeverOpensGate ==
    /\ failureCount = 0
    /\ ~isOpen(failureCount)
    /\ failedSinceSuccess = 0
    /\ \A r \in Reqs :
          /\ req[r].recordFailureCalls = 0
          /\ req[r].aiOutcome \in {"none", "pending", "resolved"}
          /\ respond(req[r]).status # 503

\* every request the bound allows has been received; one was answered 200
\* with the mock's answer and one 500 because its audit write failed
C36_Witness ==
    /\ received = MaxRequests
    /\ \E r, q \in Reqs :
          /\ respond(req[r]) = [status |-> 200, body |-> <<"answer", DEFAULT_RESPONSE>>]
          /\ respond(req[q]).status = 500
          /\ req[q].error = <<WriteError>>
          /\ req[q].recordSuccessCalls = 1

====
